---- MODULE Spec2Model ----
(***************************************************************************)
(* motop: a "top" clone for MongoDB.                                       *)
(*                                                                         *)
(* The module models                                                       *)
(*   - libmotop/server.py   Server (the ServerProxy): tryToConnect, the    *)
(*     retry helper __execute and the remote operations built on it;       *)
(*   - libmotop/Server.py   the retry helper of the older Server variant;  *)
(*   - libmotop/queryscreen.py  OperationBlock and QueryScreen.action,     *)
(*     the main loop;                                                      *)
(*   - libmotop/console.py  Console / DeactiveConsole terminal modes and   *)
(*     askForInput.                                                        *)
(*                                                                         *)
(* Four specifications share the variables:                                *)
(*   SpecServer   remote calls on the servers, one attempt per step;       *)
(*   SpecRetry    the two retry helpers alone;                             *)
(*   Spec         the main loop with the operations table;                 *)
(*   SpecConsole  the terminal modes across prompts.                       *)
(***************************************************************************)
EXTENDS Integers, Sequences, FiniteSets, TLC

VARIABLES
    \* ---- Server objects (server.py) ----
    connection,   \* [Servers -> {"undefined", "None", "client"}]: self.__connection
    lastError,    \* [Servers -> ErrorKinds]: self.__lastError ("unset": no attribute yet)
    credentials,  \* [Servers -> BOOLEAN]: self.__username and self.__password
    \* ---- a remote call in flight ----
    spc,          \* "new" | "idle" | "execute" | "iterate" | "returned" | "raised"
    self,         \* the server the call is on
    op,           \* the method called
    stage,        \* which __execute call of the method is running (explainQuery has 2)
    tryCount,     \* the loop variable of __execute
    attempts,     \* how many times the current __execute call invoked the procedure
    result,       \* "none" | "value" | "absent": what the caller received
    raised,       \* "none" or the name of the exception that left the method
    variant,      \* "server.py" | "Server.py": whose __execute runs (SpecRetry)
    \* ---- QueryScreen.action (queryscreen.py) ----
    pc,           \* position in the body of the while loop
    python,       \* 2 | 3: the interpreter (the code supports both)
    counter,      \* ticks so far
    button,       \* the local variable button
    lines,        \* OperationBlock.__lines
    turn,         \* position in ServerList of the server OperationBlock.reset polls next
    inputValues,  \* what askForInput returned
    kills,        \* kill requests issued since the last refresh: {<<server, opid>>}
    batch,        \* rows the last batchKill call killed (their indices in lines)
    acted,        \* rebuild stamps of the rows the last action read
    message,      \* the one-line message the last action printed ("none" if none)
    did,          \* what the last step of the loop performed
    second,       \* the threshold of the last batchKill call, as int() returned it
    shown,        \* the tick whose rows Console.refresh rendered last
    autoKillSeconds,  \* QueryScreen.__autoKillSeconds: None or the -K argument
    \* ---- Console (console.py) ----
    cpc,          \* "outside" | "active" | "prompting" | "interrupted" | "crashed" | "left"
    isatty,       \* stdin is a terminal (the termios calls succeed)
    original,     \* the terminal attributes before Console.__enter__
    terminal,     \* the terminal attributes now
    settings,     \* Console.__settings: [saved, attrs]; saved is FALSE for None
    asked,        \* labels still to ask in the running askForInput
    values,       \* values collected by the running askForInput
    prompts,      \* askForInput calls ended so far
    ending,       \* how the last askForInput ended
    \* ---- Block (console.py) ----
    columnHeaders,  \* Block.__columnHeaders, each header as the length of its text
    columnWidths,   \* Block.__columnWidths
    blockLines,     \* Block.__lines, each cell as the length of its text
    printed,        \* the lines the last Block.print wrote: per column [shown, full]
    height,         \* the height argument of the last Block.print
    width,          \* the width argument of the last Block.print
    \* ---- Console.refresh (console.py) ----
    blocks,         \* the blocks handed to refresh, each as len(block)
    termHeight,     \* Console.__height
    rendered,       \* what the last refresh did with each block it came to
    \* ---- StatusBlock (queryscreen.py), Server.status (Server.py) ----
    oldStatus,      \* StatusBlock.__oldStatus[server] / Server.__oldValues
    status,         \* what the last server.status() returned
    baseline,       \* the old status the last poll computed against
    rates,          \* the rate cells of the last poll: [qps, flush]
    \* ---- Block.__cell (console.py), Value.__str__ (Server.py) ----
    number,         \* the number to be shown
    cellText,       \* the text made of it: [number, fix], or NoText
    \* ---- OperationBlock.__findLine (queryscreen.py) ----
    found,          \* the last lookup: what was typed and the row returned
    \* ---- the blocks of QueryScreen (queryscreen.py, motop.py) ----
    statusLines,    \* the rows StatusBlock.reset handed to Block.reset
    enabled,        \* the sections whose replicationOperations option is on
    hiding,         \* hideReplicationOperations of the last poll of each server
    \* ---- the rows of the four blocks (queryscreen.py) ----
    blockRows,      \* the block reset last and the lines it handed to Block.reset
    \* ---- Console.__saveSize and Console.refresh (console.py) ----
    termWidth,      \* self.__width
    atStart,        \* self.__height and self.__width when the refresh under way began
    \* ---- the reconnect block of QueryScreen.action (queryscreen.py) ----
    reachable,      \* the servers a connection attempt would reach now
    attempted,      \* the servers the last reconnect block called tryToConnect on
    lastAttempt     \* per server the tick of its last connection attempt

serverVars == <<connection, lastError, credentials>>
callVars == <<spc, self, op, stage, tryCount, attempts, result, raised, variant>>
loopVars == <<pc, python, counter, button, lines, turn, inputValues, kills, batch, acted, message,
              did, second, shown, autoKillSeconds>>
consoleVars == <<cpc, isatty, original, terminal, settings, asked, values, prompts, ending>>
blockVars == <<columnHeaders, columnWidths, blockLines, printed, height, width>>
refreshVars == <<blocks, termHeight, rendered>>
statusVars == <<oldStatus, status, baseline, rates>>
cellVars == <<number, cellText>>
tableVars == <<found>>
screenVars == <<statusLines, enabled, hiding>>
rowVars == <<blockRows>>
resizeVars == <<termWidth, atStart>>
reconnectVars == <<reachable, attempted, lastAttempt>>
moreVars == <<screenVars, rowVars, resizeVars, reconnectVars>>
viewVars == <<blockVars, refreshVars, statusVars, cellVars, tableVars, moreVars>>
vars == <<serverVars, callVars, loopVars, consoleVars, viewVars>>

(***************************************************************************)
(* Bounds of the model.                                                    *)
(***************************************************************************)
MaxOps == 2        \* operations the servers together report in one refresh
MaxSecs == 1       \* largest secs_running a poll reports
MaxTicks == 2      \* refreshes of the main loop
MaxPrompts == 2    \* askForInput calls in one Console session
MaxRows == 2       \* rows of a block
MaxHeight == 4     \* largest height a block is printed in
MaxWidth == 14     \* largest width a block is printed in
MaxBlocks == 3     \* blocks on the screen
MaxScreen == 8     \* largest height of the terminal
MaxCount == 2      \* largest value of a counter of serverStatus
MaxUptime == 2     \* largest time of a poll, in seconds
MaxValue == 10500  \* largest number shown, before it is multiplied
MaxTableRows == 3  \* operations the servers together report in one table
MaxScreenOps == 2  \* operations the servers together report in one reset of the screen

Servers == {"s1", "s2"}
ServerList == <<"s1", "s2">>     \* the configuration order
None == "None"

(***************************************************************************)
(* server.py                                                               *)
(***************************************************************************)
ErrorKinds == {"unset", "ConnectionFailure", "AutoReconnect", "OperationFailure"}
Outcomes == {"ok", "AutoReconnect", "OperationFailure"}   \* of one datasource call
ConnectOutcomes == {"ok", "ConnectionFailure"}
AuthOutcomes == {"ok", "OperationFailure"}
RemoteOps == {"status", "currentOperations", "replicationInfo",
              "replicaSetMembers", "explainQuery"}

\* Server.tryToConnect without the assignment of its except clause.
TryToConnectNoRecord(creds, oldError, outcome, auth) ==
    [connection |-> IF outcome = "ok" THEN "client" ELSE None,
     lastError  |-> oldError,
     raised     |-> IF ~creds THEN "none"
                    ELSE IF outcome # "ok" THEN "AttributeError"
                    ELSE IF auth = "ok" THEN "none" ELSE auth]

\* Server.tryToConnect: the handle is reset, the connection attempted, a
\* ConnectionFailure recorded; then, with credentials, authenticate is called on
\* the handle whether or not there is one.
TryToConnect(creds, oldError, outcome, auth) ==
    [connection |-> IF outcome = "ok" THEN "client" ELSE None,
     lastError  |-> IF outcome = "ok" THEN oldError ELSE "ConnectionFailure",
     raised     |-> IF ~creds THEN "none"
                    ELSE IF outcome # "ok" THEN "AttributeError"
                    ELSE IF auth = "ok" THEN "none" ELSE auth]

\* Server.connected
Connected(s) == connection[s] # None

Tries == 10     \* range(10) in server.py, while tryCount < 10 in Server.py

\* One iteration of the loop of Server.__execute (server.py) that gives up the
\* connection when the tries are used up.
ExecuteDropping(conn, count, oldError, outcome) ==
    [done       |-> outcome # "AutoReconnect" \/ count + 1 >= Tries,
     value      |-> outcome = "ok",
     lastError  |-> IF outcome = "ok" THEN oldError ELSE outcome,
     tryCount   |-> count + 1,
     connection |-> IF outcome = "ok" \/ count + 1 < Tries THEN conn ELSE None,
     raised     |-> "none"]

\* One iteration of the loop of Server.__execute (server.py): for tryCount in
\* range(10), the procedure is called; its value is returned, an AutoReconnect
\* is recorded and the loop goes on, an OperationFailure is recorded and the
\* loop is left.  Falling out of the loop returns None.
Execute(conn, count, oldError, outcome) ==
    [done       |-> outcome # "AutoReconnect" \/ count + 1 >= Tries,
     value      |-> outcome = "ok",
     lastError  |-> IF outcome = "ok" THEN oldError ELSE outcome,
     tryCount   |-> count + 1,
     connection |-> conn,
     raised     |-> "none"]

\* One iteration of the loop of Server.__execute (Server.py): tryCount starts at
\* 1 and the loop runs while tryCount < 10; leaving the loop without a value
\* raises ExecuteFailure.
ExecuteLegacy(conn, count, oldError, outcome) ==
    [done       |-> outcome # "AutoReconnect" \/ count + 1 >= Tries,
     value      |-> outcome = "ok",
     lastError  |-> IF outcome = "ok" THEN oldError ELSE outcome,
     tryCount   |-> count + 1,
     connection |-> conn,
     raised     |-> IF outcome = "ok" THEN "none"
                    ELSE IF outcome = "OperationFailure" \/ count + 1 >= Tries
                         THEN "ExecuteFailure" ELSE "none"]

\* The first value of the loop variable.
FirstTry(v) == IF v = "server.py" THEN 0 ELSE 1

ExecuteOf(v, conn, count, oldError, outcome) ==
    IF v = "server.py" THEN Execute(conn, count, oldError, outcome)
    ELSE ExecuteLegacy(conn, count, oldError, outcome)

\* What a method does once its __execute call has ended, with a value or with
\* None.  status, replicaSetMembers and currentOperations test the value;
\* __executeYield (replicationInfo) iterates over it; explainQuery calls
\* cursor.explain on it and runs __execute a second time.
Continue(o, st, value) ==
    CASE o = "replicationInfo" ->
            IF value THEN [spc |-> "iterate", stage |-> st, result |-> "none", raised |-> "none"]
            ELSE [spc |-> "raised", stage |-> st, result |-> "none", raised |-> "TypeError"]
      [] o = "explainQuery" /\ st = 1 ->
            IF value THEN [spc |-> "execute", stage |-> 2, result |-> "none", raised |-> "none"]
            ELSE [spc |-> "raised", stage |-> st, result |-> "none", raised |-> "AttributeError"]
      [] OTHER ->
            [spc |-> "returned", stage |-> st,
             result |-> IF value THEN "value" ELSE "absent", raised |-> "none"]

\* Server.__init__, called for each configured server in turn (chooseServers).
Construct ==
    /\ spc = "new"
    /\ \E s \in Servers, outcome \in ConnectOutcomes, auth \in AuthOutcomes :
        LET c == TryToConnect(credentials[s], lastError[s], outcome, auth) IN
        /\ connection[s] = "undefined"
        /\ \A i \in 1..Len(ServerList) :
              ServerList[i] = s => \A j \in 1..(i - 1) : connection[ServerList[j]] # "undefined"
        /\ connection' = [connection EXCEPT ![s] = c.connection]
        /\ lastError' = [lastError EXCEPT ![s] = c.lastError]
        /\ self' = s
        /\ op' = "tryToConnect"
        /\ raised' = c.raised
        /\ spc' = IF c.raised # "none" THEN "raised"
                  ELSE IF \A t \in Servers \ {s} : connection[t] # "undefined" THEN "idle"
                  ELSE "new"
    /\ UNCHANGED <<credentials, stage, tryCount, attempts, result, variant>>
    /\ UNCHANGED <<loopVars, consoleVars, viewVars>>

\* A later call of Server.tryToConnect (the reconnect of QueryScreen.action).
Reconnect ==
    /\ spc = "idle"
    /\ \E s \in Servers, outcome \in ConnectOutcomes, auth \in AuthOutcomes :
        LET c == TryToConnect(credentials[s], lastError[s], outcome, auth) IN
        /\ connection' = [connection EXCEPT ![s] = c.connection]
        /\ lastError' = [lastError EXCEPT ![s] = c.lastError]
        /\ self' = s
        /\ op' = "tryToConnect"
        /\ raised' = c.raised
        /\ spc' = IF c.raised # "none" THEN "raised" ELSE "idle"
    /\ UNCHANGED <<credentials, stage, tryCount, attempts, result, variant>>
    /\ UNCHANGED <<loopVars, consoleVars, viewVars>>

\* A caller invokes a remote operation.  status tests connected() itself; the
\* blocks call the other methods on connected servers only.
Call ==
    /\ spc = "idle"
    /\ \E s \in Servers, o \in RemoteOps :
        /\ o = "status" \/ Connected(s)
        /\ self' = s
        /\ op' = o
        /\ stage' = 1
        /\ tryCount' = FirstTry(variant)
        /\ attempts' = 0
        /\ raised' = "none"
        /\ IF Connected(s)
           THEN spc' = "execute" /\ result' = "none"
           ELSE spc' = "returned" /\ result' = "absent"
    /\ UNCHANGED <<serverVars, variant, loopVars, consoleVars, viewVars>>

\* One try of __execute: the procedure is called on the datasource.
Attempt ==
    /\ spc = "execute"
    /\ \E outcome \in Outcomes :
        LET e == Execute(connection[self], tryCount, lastError[self], outcome)
            k == Continue(op, stage, e.value) IN
        /\ connection' = [connection EXCEPT ![self] = e.connection]
        /\ lastError' = [lastError EXCEPT ![self] = e.lastError]
        /\ IF e.done
           THEN /\ spc' = k.spc
                /\ stage' = k.stage
                /\ result' = k.result
                /\ raised' = k.raised
                /\ tryCount' = IF k.spc = "execute" THEN FirstTry(variant) ELSE e.tryCount
                /\ attempts' = IF k.spc = "execute" THEN 0 ELSE attempts + 1
           ELSE /\ tryCount' = e.tryCount
                /\ attempts' = attempts + 1
                /\ UNCHANGED <<spc, stage, result, raised>>
    /\ UNCHANGED <<credentials, self, op, variant, loopVars, consoleVars, viewVars>>

\* __executeYield fetching the first item of the cursor for replicationInfo:
\* only AutoReconnect is caught there.
Iterate ==
    /\ spc = "iterate"
    /\ \E outcome \in {"item", "empty", "AutoReconnect", "OperationFailure"} :
        /\ lastError' = IF outcome = "AutoReconnect"
                        THEN [lastError EXCEPT ![self] = outcome] ELSE lastError
        /\ result' = IF outcome = "item" THEN "value"
                     ELSE IF outcome = "OperationFailure" THEN "none" ELSE "absent"
        /\ raised' = IF outcome = "OperationFailure" THEN outcome ELSE "none"
        /\ spc' = IF outcome = "OperationFailure" THEN "raised" ELSE "returned"
    /\ UNCHANGED <<connection, credentials, self, op, stage, tryCount, attempts, variant>>
    /\ UNCHANGED <<loopVars, consoleVars, viewVars>>

\* The caller has the result; the next call may start.
Return ==
    /\ spc = "returned"
    /\ spc' = "idle"
    /\ UNCHANGED <<serverVars, self, op, stage, tryCount, attempts, result, raised, variant>>
    /\ UNCHANGED <<loopVars, consoleVars, viewVars>>

(***************************************************************************)
(* Parts of the state a specification does not use.                        *)
(***************************************************************************)
(***************************************************************************)
(* console.py: Console and DeactiveConsole, the terminal modes             *)
(***************************************************************************)
\* The terminal attributes the modes differ in: ECHO, ICANON, VMIN, and ISIG
\* as one of the flags no mode touches.
Attrs == [echo : BOOLEAN, icanon : BOOLEAN, vmin : {1, 4}, isig : BOOLEAN]
Cooked == [echo |-> TRUE, icanon |-> TRUE, vmin |-> 4, isig |-> TRUE]

\* self.__settings = None
NoSettings == [saved |-> FALSE, attrs |-> Cooked]

\* tty.setcbreak: ECHO and ICANON off, one character at a time.
SetCbreak(attrs) == [attrs EXCEPT !.echo = FALSE, !.icanon = FALSE, !.vmin = 1]

\* Console.__enter__ taking the attributes to restore after the mode change.
ConsoleEnterSavingAfter(attrs, tty) ==
    IF tty THEN [settings |-> [saved |-> TRUE, attrs |-> SetCbreak(attrs)],
                 terminal |-> SetCbreak(attrs)]
    ELSE [settings |-> NoSettings, terminal |-> attrs]

\* Console.__enter__: tcgetattr into self.__settings, then setcbreak; both raise
\* termios.error when stdin is no terminal, and self.__settings is None then.
ConsoleEnter(attrs, tty) ==
    IF tty THEN [settings |-> [saved |-> TRUE, attrs |-> attrs], terminal |-> SetCbreak(attrs)]
    ELSE [settings |-> NoSettings, terminal |-> attrs]

\* Console.__exit__: tcsetattr(self.__settings) if there are settings.
ConsoleExit(attrs, saved) == IF saved.saved THEN saved.attrs ELSE attrs

\* DeactiveConsole.__enter__ is Console.__exit__, DeactiveConsole.__exit__ is
\* Console.__enter__.
DeactiveEnter(attrs, saved) == ConsoleExit(attrs, saved)
DeactiveExit(attrs, tty) == ConsoleEnter(attrs, tty)

(***************************************************************************)
(* console.py: Block, one table of the screen.  A text is modelled by its  *)
(* length: ljust, the slice and the column widths depend on nothing else.  *)
(***************************************************************************)
Max(a, b) == IF a >= b THEN a ELSE b
Min(a, b) == IF a <= b THEN a ELSE b

\* The header lists printed: lengths of ('Opid', 'Sec', 'Queue') and of
\* ('Connection', 'QPS').
HeaderLists == {<<4, 3, 5>>, <<10, 3>>}

\* Lengths of the cell texts, and the rows a reset can store: at most as many
\* cells as headers (the assertion of Block.print), all short or all long.
CellLengths == {2, 7}
RowsOf(headers) == { [i \in 1..k |-> c] : k \in 1..Len(headers), c \in CellLengths }

\* [6] * len(self.__columnHeaders)
InitialWidth == 6

\* The test that ends a line: leftWidth < len(self.__columnHeaders[index]).
HiddenWhenNothingLeft(leftWidth, header) == leftWidth <= 0
Hidden(leftWidth, header) == leftWidth < header

\* max(len(cell) + 2, self.__columnWidths[index])
WidenToCell(cell, stored) == cell + 2
Widen(cell, stored) == Max(cell + 2, stored)

\* cell.ljust(w): the length of the padded text.
Ljust(cell, w) == Max(cell, w)

\* text[:leftWidth]: the length of the slice.
CutNothing(text, leftWidth) == text
Cut(text, leftWidth) ==
    IF leftWidth >= 0 THEN Min(text, leftWidth) ELSE Max(0, text + leftWidth)

\* Block.__printLine from cell index on.  st holds the column widths and the
\* columns written so far: per column the length of its cell, the column width
\* and the length written.
RECURSIVE PrintLineFrom(_, _, _, _, _)
PrintLineFrom(headers, line, index, leftWidth, st) ==
    IF index > Len(line) THEN st
    ELSE IF Hidden(leftWidth, headers[index]) THEN st
    ELSE LET w == IF index < Len(line) THEN Widen(line[index], st.widths[index])
                  ELSE st.widths[index]
             piece == [cell |-> line[index], full |-> w,
                       shown |-> Cut(Ljust(line[index], w), leftWidth)]
         IN PrintLineFrom(headers, line, index + 1, leftWidth - w,
                [widths |-> [st.widths EXCEPT ![index] = w],
                 pieces |-> Append(st.pieces, piece)])

\* Block.__printLine(line, leftWidth): the widths after it, the line written.
PrintLine(headers, line, leftWidth, widths) ==
    PrintLineFrom(headers, line, 1, leftWidth, [widths |-> widths, pieces |-> <<>>])

\* leftWidth when __printLine came to column index of a line written.
RECURSIVE LeftWidth(_, _, _)
LeftWidth(pieces, index, w) ==
    IF index = 1 THEN w ELSE LeftWidth(pieces, index - 1, w) - pieces[index - 1].full

\* The length of a written line (the bold escape sequences left out).
RECURSIVE LineLength(_)
LineLength(pieces) ==
    IF pieces = <<>> THEN 0 ELSE pieces[1].shown + LineLength(Tail(pieces))

\* The test that ends the rows of Block.print: height <= 1.
ExhaustedAtZero(h) == h <= 0
ExhaustedNever(h) == FALSE
Exhausted(h) == h <= 1

\* The loop over self.__lines of Block.print from row i on.
RECURSIVE PrintRows(_, _, _, _, _, _)
PrintRows(headers, rows, i, h, w, st) ==
    IF i > Len(rows) \/ Exhausted(h) THEN st
    ELSE LET r == PrintLine(headers, rows[i], w, st.widths)
         IN PrintRows(headers, rows, i + 1, h - 1, w,
                [widths |-> r.widths, out |-> Append(st.out, r.pieces)])

\* Block.print(height, width), height > 1: the header line, then the rows.
BlockPrint(headers, rows, widths, h, w) ==
    LET head == PrintLine(headers, headers, w, widths)
    IN PrintRows(headers, rows, 1, h - 1, w, [widths |-> head.widths, out |-> <<head.pieces>>])

\* How many rows Block.print(height, .) writes of n stored rows.
Shown(n, h) == Cardinality({ i \in 1..n : ~Exhausted(h - i) })

NoBlock ==
    /\ columnHeaders = <<>> /\ columnWidths = <<>> /\ blockLines = <<>> /\ printed = <<>>
    /\ height = 0 /\ width = 0

\* Console.refresh: the height a block of n rows is printed in when
\* leftHeight lines are left.
BlockHeightHeaderOnly(n, leftHeight) == Min(n + 1, leftHeight)
BlockHeight(n, leftHeight) == IF n + 2 < leftHeight THEN n + 2 ELSE leftHeight

\* What printing one block can meet: nothing, IOError in block.print while it
\* writes the line after `at` whole lines, IOError in the print() of the
\* separator.
PrintOutcomes ==
    {[kind |-> "ok", at |-> 0], [kind |-> "IOError in separator", at |-> 0]}
        \cup {[kind |-> "IOError in block", at |-> k] : k \in 0..MaxRows}

\* The loop of Console.refresh from block i on; acc has one entry per block the
\* loop came to without leaving: leftHeight before it, the height it was
\* printed in (0: skipped), the lines block.print wrote, whether the separator
\* was written, leftHeight after it.
RECURSIVE RefreshFrom(_, _, _, _, _)
RefreshFrom(bs, i, leftHeight, outcomes, acc) ==
    IF i > Len(bs) THEN acc
    ELSE IF bs[i] = 0
    THEN RefreshFrom(bs, i + 1, leftHeight, outcomes,
             Append(acc, [left |-> leftHeight, height |-> 0, lines |-> 0, blank |-> FALSE,
                          outcome |-> "ok", after |-> leftHeight]))
    ELSE IF leftHeight <= 2 THEN acc
    ELSE LET h == BlockHeight(bs[i], leftHeight)
             kind == outcomes[i].kind
             blank == kind = "ok" /\ leftHeight - h >= 2
             after == CASE kind = "IOError in block" -> leftHeight
                        [] kind = "IOError in separator" /\ leftHeight - h >= 2
                               -> leftHeight - h
                        [] OTHER -> IF leftHeight - h >= 2 THEN leftHeight - h - 1
                                    ELSE leftHeight - h
         IN RefreshFrom(bs, i + 1, after, outcomes,
                Append(acc, [left |-> leftHeight, height |-> h,
                             lines |-> IF kind = "IOError in block"
                                       THEN Min(outcomes[i].at, Shown(bs[i], h))
                                       ELSE 1 + Shown(bs[i], h),
                             blank |-> blank, outcome |-> kind, after |-> after]))

\* Console.refresh(blocks)
RefreshBlocks(bs, h, outcomes) == RefreshFrom(bs, 1, h, outcomes, <<>>)

NoRefresh == blocks = <<>> /\ termHeight = 0 /\ rendered = <<>>

(***************************************************************************)
(* queryscreen.py: StatusBlock.reset; server.py: Result.deepgetDiff;       *)
(* Server.py: Server.status and __statusChangePerSecond.                   *)
(***************************************************************************)
\* A serverStatus document as the rates use it: the time of the poll in
\* milliseconds (uptimeMillis; datetime.now() in Server.py) and two counters,
\* opcounters and backgroundFlushing.flushes.  has is FALSE for no document.
Times == { k * 1000 : k \in 0..MaxUptime }
Statuses == [has : {TRUE}, time : Times, ops : 0..MaxCount, flushes : 0..MaxCount]
NoStatus == [has |-> FALSE, time |-> 0, ops |-> 0, flushes |-> 0]

\* A rate cell: the number num / (den / 1000), den in milliseconds; or no
\* number, with the reason as its kind.
Rate(num, den) == [kind |-> "number", num |-> num, den |-> den]
NoRate(kind) == [kind |-> kind, num |-> 0, den |-> 1000]

\* Result.deepgetDiff: value - otherValue if both are true values, else 0.
DeepgetDiff(value, otherValue) ==
    IF value # 0 /\ otherValue # 0 THEN value - otherValue ELSE 0

\* sec of StatusBlock.reset, in milliseconds: the difference of uptimeMillis,
\* or 1 second if that is 0.
Sec(st, old) ==
    IF DeepgetDiff(st.time, old.time) = 0 THEN 1000 ELSE DeepgetDiff(st.time, old.time)

\* The rate cells StatusBlock.reset appends for a status, given the stored
\* old status (NoStatus if there is none: the status itself is taken).
StatusCells(st, stored) ==
    LET old == IF stored.has THEN stored ELSE st
    IN [qps |-> Rate(DeepgetDiff(st.ops, old.ops), Sec(st, old)),
        flush |-> Rate(DeepgetDiff(st.flushes, old.flushes), Sec(st, old))]

\* timespan.seconds + timespan.microseconds / 10.0 ** 6 in milliseconds, for
\* a timespan of e milliseconds: a negative timedelta has days = -1.
TimespanSeconds(e) == IF e < 0 THEN 86400000 + e ELSE e

\* int(x / y) for y > 0: the quotient cut towards 0.
Trunc(x, y) == IF x >= 0 THEN x \div y ELSE -((-x) \div y)

\* Server.__statusChangePerSecond of Server.py for a timespan of e
\* milliseconds: Value((value - oldValue) / timespanSeconds), or 0 if there
\* is no old value.
StatusChangePerSecond(oldValue, value, e) ==
    IF oldValue = 0 THEN Rate(0, 1000)
    ELSE IF TimespanSeconds(e) = 0 THEN NoRate("ZeroDivisionError")
    ELSE Rate(Trunc((value - oldValue) * 1000, TimespanSeconds(e)), 1000)

\* The rates Server.status of Server.py computes.
LegacyCells(st, stored) ==
    [qps |-> StatusChangePerSecond(stored.ops, st.ops, st.time - stored.time),
     flush |-> StatusChangePerSecond(stored.flushes, st.flushes, st.time - stored.time)]

NoStatusBlock ==
    /\ oldStatus = NoStatus /\ status = NoStatus /\ baseline = NoStatus
    /\ rates = [qps |-> NoRate("none"), flush |-> NoRate("none")]

(***************************************************************************)
(* console.py: Block.__cell for a number; Server.py: Value.__str__.        *)
(***************************************************************************)
Fixes == <<"", "k", "M", "G", "T", "P", "E", "Z", "Y">>

\* The numbers shown: every integer up to MaxValue, and its multiples that
\* reach the second suffix and the halves between two thousands.
Multipliers == {1, 500, 1000}
Values == { v * m : v \in 0..MaxValue, m \in Multipliers }

NoText == [number |-> -1, fix |-> "none"]

\* round(value / 1000) for a non-negative whole value.  Python 3: true
\* division, round to nearest with ties to even.  Python 2: an int is
\* divided with the remainder dropped, a float is divided truly and rounded
\* with ties away from 0; round returns a float.
RoundThousandth(value, isInt, py) ==
    LET q == value \div 1000
        r == value % 1000
    IN IF py = 3
       THEN IF r > 500 \/ (r = 500 /\ q % 2 = 1) THEN q + 1 ELSE q
       ELSE IF isInt THEN q
       ELSE IF r >= 500 THEN q + 1 ELSE q

\* The test of the loop of __cell: the value is written as it is.
PlainBelowThousand(value) == value < 1000
Plain(value) == value < 10000

\* The loop of Block.__cell from the index'th of ('',) + fixes on; after the
\* last one str(value) is returned, of an int or of a float.
RECURSIVE CellFrom(_, _, _, _)
CellFrom(value, isInt, index, py) ==
    IF index > Len(Fixes) THEN [number |-> value, fix |-> IF isInt THEN "" ELSE ".0"]
    ELSE IF Plain(value) THEN [number |-> value, fix |-> Fixes[index]]
    ELSE CellFrom(RoundThousandth(value, isInt, py), py = 3, index + 1, py)

\* Block.__cell of an int.
Cell(value, py) == CellFrom(value, TRUE, 1, py)

\* Value.__str__ of Server.py: one division by the largest power of 1000
\* the value is above; up to 10 ** 3 the digits of the int.
RoundPower(value, power, py) ==
    LET q == value \div power
        r == value % power
    IN IF py = 3 /\ (2 * r > power \/ (2 * r = power /\ q % 2 = 1)) THEN q + 1 ELSE q

ValueStr(value, py) ==
    IF value > 1000000 THEN [number |-> RoundPower(value, 1000000, py), fix |-> "M"]
    ELSE IF value > 1000 THEN [number |-> RoundPower(value, 1000, py), fix |-> "K"]
    ELSE [number |-> value, fix |-> ""]

NoCell == number = 0 /\ cellText = NoText

\* No lookup made.
NoFound == [serverName |-> "none", opid |-> "none", line |-> 0]

NoTable == found = NoFound

(***************************************************************************)
(* queryscreen.py: StatusBlock.reset and OperationBlock.reset as the loop  *)
(* of QueryScreen.action runs them; motop.py: chooseServers.               *)
(***************************************************************************)
\* Server.__execute run to its end with a procedure that does the same at
\* every call.
RECURSIVE ExecuteLoop(_, _, _, _)
ExecuteLoop(conn, count, oldError, outcome) ==
    LET e == Execute(conn, count, oldError, outcome)
    IN IF e.done THEN e ELSE ExecuteLoop(conn, e.tryCount, e.lastError, outcome)

\* Server.status: the document, or None for a server that is not connected
\* or whose command gave nothing.
ServerStatus(conn, oldError, outcome) ==
    IF conn = None THEN [value |-> FALSE, lastError |-> oldError]
    ELSE [value |-> ExecuteLoop(conn, 0, oldError, outcome).value,
          lastError |-> ExecuteLoop(conn, 0, oldError, outcome).lastError]

\* A row of the status block that shows metrics whatever the poll gave.
StatusRowMetricsOnly(s, conn, oldError, outcome) ==
    [server |-> s, cells |-> "metrics", error |-> "unset",
     polled |-> IF conn = None THEN "none" ELSE outcome]

\* One pass of the loop of StatusBlock.reset: the server, then its metrics
\* or its last error.  polled records what the command of the poll did.
StatusRow(s, conn, oldError, outcome) ==
    LET st == ServerStatus(conn, oldError, outcome)
    IN [server |-> s,
        cells |-> IF st.value THEN "metrics" ELSE "lastError",
        error |-> IF st.value THEN "unset" ELSE st.lastError,
        polled |-> IF conn = None THEN "none" ELSE outcome]

\* chooseServers makes a Server object for every choice and section; an
\* object is known by the two.
ServerObject(choice, section) == <<choice, section>>

\* chosenServers['replicationOperations'] for the sections with the option on.
ReplicationOperationServers(on) == { ServerObject("replicationOperations", s) : s \in on }

\* hideReplicationOperations = server not in self.__replicationOperationServers,
\* for the server of a section in chosenServers['operations'].
HideReplicationOperations(s, on) ==
    ServerObject("operations", s) \notin ReplicationOperationServers(on)

\* The servers the reconnect block calls tryToConnect on, for a key and a
\* value of the counter.
ServersToConnectAll(key, count, conn) ==
    IF key \in {"r", "R"} \/ count % 20 = 0 THEN Servers ELSE {}
ServersToConnect(key, count, conn) ==
    IF key \in {"r", "R"} \/ count % 20 = 0
    THEN { s \in Servers : key = "R" \/ conn[s] = None }
    ELSE {}

NoPoll == [called |-> FALSE, hide |-> FALSE, repl |-> {}]

\* No block of QueryScreen reset yet.
NoScreen == statusLines = <<>> /\ enabled = {} /\ hiding = [s \in Servers |-> NoPoll]

NoRows == blockRows = [block |-> 0, lines |-> <<>>]

NoSize == [height |-> 0, width |-> 0]

NoResize == termWidth = 0 /\ atStart = NoSize

NoReconnect ==
    /\ reachable = {} /\ attempted = {}
    /\ lastAttempt = [s \in Servers |-> 0]

NoMore == NoScreen /\ NoRows /\ NoResize /\ NoReconnect

NoView == NoBlock /\ NoRefresh /\ NoStatusBlock /\ NoCell /\ NoTable /\ NoMore

NoCall ==
    /\ spc = "idle" /\ self = "s1" /\ op = "none" /\ stage = 1 /\ tryCount = 0
    /\ attempts = 0 /\ result = "none" /\ raised = "none" /\ variant = "server.py"

NoLoop ==
    /\ pc = "none" /\ python = 3 /\ counter = 0 /\ button = None /\ lines = <<>>
    /\ inputValues = <<>> /\ kills = {} /\ batch = {} /\ acted = {} /\ message = "none"
    /\ did = "none" /\ second = 0 /\ shown = 0 /\ autoKillSeconds = None /\ turn = 1

NoConsole ==
    /\ cpc = "none" /\ isatty = TRUE /\ original = Cooked /\ terminal = Cooked
    /\ settings = NoSettings /\ asked = <<>> /\ values = <<>> /\ prompts = 0 /\ ending = "none"

(***************************************************************************)
(* SpecServer: the servers are constructed, then polled and reconnected.   *)
(***************************************************************************)
InitServer ==
    /\ connection = [s \in Servers |-> "undefined"]
    /\ lastError = [s \in Servers |-> "unset"]
    /\ credentials \in [Servers -> BOOLEAN]
    /\ spc = "new" /\ self = "s1" /\ op = "none" /\ stage = 1 /\ tryCount = 0
    /\ attempts = 0 /\ result = "none" /\ raised = "none" /\ variant = "server.py"
    /\ NoLoop
    /\ NoConsole
    /\ NoView

NextServer == Construct \/ Reconnect \/ Call \/ Attempt \/ Iterate \/ Return

SpecServer == InitServer /\ [][NextServer]_vars

\* A remote operation has ended, one way or the other.
CallEnded == spc \in {"returned", "raised"} /\ op \in RemoteOps

\* C1: every remote operation of a server returns to its caller with a value
\* or an absent result, whatever the datasource does; no exception leaves it.
C1_NoExceptionAboveServer == CallEnded => (raised = "none" /\ result \in {"value", "absent"})

\* C7: tryToConnect never raises, whatever the outcome of the connection
\* attempt and whether or not credentials are configured.
C7_ConnectNeverRaises == op = "tryToConnect" => raised = "none"

\* C8 as stated: the handle of a constructed server is None if and only if a
\* last error is set.
C8_NullIffError ==
    \A s \in Servers :
        connection[s] # "undefined" => (connection[s] = None <=> lastError[s] # "unset")

\* C8 as amended: whenever the handle of a constructed server is None, a last
\* error is set (a last error may also be set while the handle is not None).
C8_NullImpliesError ==
    \A s \in Servers : connection[s] = None => lastError[s] # "unset"

\* C8 witness: one server whose connection attempt failed, beside a connected
\* server that recorded the error of a failed poll.
C8_Witness ==
    /\ spc = "idle"
    /\ \E s, t \in Servers :
          /\ connection[s] = None /\ lastError[s] = "ConnectionFailure"
          /\ connection[t] = "client" /\ lastError[t] \in {"AutoReconnect", "OperationFailure"}

\* C9: a poll, failed or not, leaves connected() as it was; a server goes from
\* connected to disconnected only in a tryToConnect whose attempt failed.
C9_PollKeepsConnected ==
    [][ /\ (spc \in {"execute", "iterate"} => connection' = connection)
        /\ \A s \in Servers :
              (connection[s] = "client" /\ connection'[s] = None)
                  => (spc = "idle" /\ op' = "tryToConnect" /\ self' = s
                      /\ lastError'[s] = "ConnectionFailure") ]_vars

\* C9 witness: a poll of a connected server used up all its tries and the
\* server is still connected.
C9_Witness ==
    /\ spc = "returned" /\ result = "absent" /\ attempts = Tries
    /\ lastError[self] = "AutoReconnect" /\ Connected(self)

(***************************************************************************)
(* SpecRetry: the retry helper of either Server variant, called again and  *)
(* again on a connected server.                                            *)
(***************************************************************************)
InitRetry ==
    /\ connection = [s \in Servers |-> "client"]
    /\ lastError \in [Servers -> {"unset", "AutoReconnect", "OperationFailure"}]
    /\ credentials = [s \in Servers |-> FALSE]
    /\ variant \in {"server.py", "Server.py"}
    /\ spc = "idle" /\ self = "s1" /\ op = "none" /\ stage = 1 /\ tryCount = 0
    /\ attempts = 0 /\ result = "none" /\ raised = "none"
    /\ NoLoop
    /\ NoConsole
    /\ NoView

\* __execute is entered.
RetryCall ==
    /\ spc = "idle"
    /\ \E s \in Servers : self' = s
    /\ op' = "__execute"
    /\ spc' = "execute"
    /\ tryCount' = FirstTry(variant)
    /\ attempts' = 0
    /\ result' = "none"
    /\ raised' = "none"
    /\ UNCHANGED <<serverVars, stage, variant, loopVars, consoleVars, viewVars>>

\* One pass of the loop of __execute.
RetryAttempt ==
    /\ spc = "execute"
    /\ \E outcome \in Outcomes :
        LET e == ExecuteOf(variant, connection[self], tryCount, lastError[self], outcome) IN
        /\ connection' = [connection EXCEPT ![self] = e.connection]
        /\ lastError' = [lastError EXCEPT ![self] = e.lastError]
        /\ tryCount' = e.tryCount
        /\ attempts' = attempts + 1
        /\ raised' = e.raised
        /\ result' = IF ~e.done THEN "none" ELSE IF e.value THEN "value" ELSE "absent"
        /\ spc' = IF ~e.done THEN "execute"
                  ELSE IF e.raised # "none" THEN "raised" ELSE "returned"
    /\ UNCHANGED <<credentials, self, op, stage, variant, loopVars, consoleVars, viewVars>>

\* __execute has ended (its caller is left out); it may be called again.
RetryReturn ==
    /\ spc \in {"returned", "raised"}
    /\ spc' = "idle"
    /\ UNCHANGED <<serverVars, self, op, stage, tryCount, attempts, result, raised, variant>>
    /\ UNCHANGED <<loopVars, consoleVars, viewVars>>

NextRetry == RetryCall \/ RetryAttempt \/ RetryReturn

SpecRetry == InitRetry /\ [][NextRetry]_vars

\* C6: the retry helper of both variants calls the datasource 10 times when
\* every try fails with a transient error and then gives up with no result and
\* the error recorded; it stops at the first success with the value, and at the
\* first operation failure with no result and that error recorded.
C6_TenTriesInBothVariants ==
    /\ attempts <= Tries
    /\ (spc \in {"returned", "raised"} /\ op = "__execute") =>
          /\ result \in {"value", "absent"}
          /\ result = "absent" => lastError[self] \in {"AutoReconnect", "OperationFailure"}
          /\ (result = "absent" /\ lastError[self] = "AutoReconnect") => attempts = Tries
    /\ (spc = "execute" /\ attempts > 0) => lastError[self] = "AutoReconnect"

(***************************************************************************)
(* queryscreen.py: OperationBlock                                          *)
(***************************************************************************)
\* What the user can type: a key, a server name, an opid, a threshold.
Keys == {"q", "p", "e", "k", "K", "r", "R", "x"}
ServerTexts == Servers \cup {"zz"}
OpidTexts == {"1", "2", "9"}
SecTexts == {"0", "1", "2", "x"}

\* str() of an opid.
Str(n) == <<"1", "2", "3", "4", "5", "6", "7", "8", "9">>[n]

\* int() of a typed text: its value, or ValueError raised.
ParseInt(text) ==
    CASE text = "0" -> [raised |-> "none", value |-> 0]
      [] text = "1" -> [raised |-> "none", value |-> 1]
      [] text = "2" -> [raised |-> "none", value |-> 2]
      [] text = "3" -> [raised |-> "none", value |-> 3]
      [] OTHER -> [raised |-> "ValueError", value |-> 0]

\* One operation document of currentOp as the loop uses it: secs_running
\* (NoSecs when the key is missing).
NoSecs == -1     \* stands for the None of op.get('secs_running')
OpDocs == [secs : {NoSecs} \cup 0..MaxSecs]

\* What one poll of currentOperations can yield when at most n documents fit
\* the bound; a failed poll yields nothing.
Polls(n) == UNION { [1..k -> OpDocs] : k \in 0..n }

\* The cells of a row that identify and rank it: line[0], line[1], line[4];
\* stamp is the rebuild that made the row.  The opid of the i-th document of a
\* poll is i: opids are unique on their server.
Cells(s, docs, i, stamp) ==
    [server |-> s, opid |-> Str(i), secs |-> docs[i].secs, stamp |-> stamp]

\* sortKey of OperationBlock.reset: line[4] or -1.
SortKey(line) == IF line.secs = NoSecs \/ line.secs = 0 THEN -1 ELSE line.secs

\* list.sort(key=sortKey, reverse=True): descending and stable.
RECURSIVE Sort(_)
Sort(rows) ==
    IF rows = <<>> THEN <<>>
    ELSE LET n == Len(rows)
             front == Sort(SubSeq(rows, 1, n - 1))
             last == rows[n]
             k == Cardinality({ i \in 1..Len(front) : SortKey(front[i]) >= SortKey(last) })
         IN SubSeq(front, 1, k) \o <<last>> \o SubSeq(front, k + 1, Len(front))

\* OperationBlock.reset starting from the rows of the rebuild before.
ResetStartKeeping(old) == old

\* OperationBlock.reset, its first line: self.__lines = [].
ResetStart(old) == <<>>

\* OperationBlock.__findServer: the server of that name, or None.
FindServer(serverName) == IF serverName \in Servers THEN serverName ELSE None

\* A lookup by the server alone.
FindLineByServer(rows, serverName, opid) ==
    LET hits == { i \in 1..Len(rows) : rows[i].server = serverName }
    IN IF hits = {} THEN 0 ELSE CHOOSE i \in hits : \A j \in hits : i <= j

\* OperationBlock.__findLine: the index of the first row of that server and
\* opid, or 0 (None).
FindLine(rows, serverName, opid) ==
    LET hits == { i \in 1..Len(rows) : rows[i].server = serverName /\ rows[i].opid = opid }
    IN IF hits = {} THEN 0 ELSE CHOOSE i \in hits : \A j \in hits : i <= j

\* The rows __findLine looked at.
Scanned(rows, serverName, opid) ==
    LET i == FindLine(rows, serverName, opid)
    IN IF i = 0 THEN 1..Len(rows) ELSE 1..i

\* line[4] < second, as the interpreter evaluates it: Python 2 orders None
\* below every number, Python 3 raises TypeError.
Less(secs, sec, py) ==
    IF secs = NoSecs THEN (IF py = 2 THEN "True" ELSE "TypeError")
    ELSE IF secs < sec THEN "True" ELSE "False"

\* OperationBlock.batchKill after int(second): the rows are taken top to
\* bottom and killed until the first one with line[4] < second.
\* Yields the indices killed, the rows read and the exception, if any.
RECURSIVE BatchKillFrom(_, _, _, _)
BatchKillFrom(rows, i, sec, py) ==
    IF i > Len(rows) THEN [killed |-> {}, read |-> {}, raised |-> "none"]
    ELSE LET c == Less(rows[i].secs, sec, py) IN
         IF c = "TypeError" THEN [killed |-> {}, read |-> {i}, raised |-> "TypeError"]
         ELSE IF c = "True" THEN [killed |-> {}, read |-> {i}, raised |-> "none"]
         ELSE LET rest == BatchKillFrom(rows, i + 1, sec, py)
              IN [killed |-> {i} \cup rest.killed, read |-> {i} \cup rest.read,
                  raised |-> rest.raised]

\* OperationBlock.batchKill(second) for a typed or configured text.
BatchKill(rows, text, py) ==
    IF ParseInt(text).raised # "none"
    THEN [killed |-> {}, read |-> {}, raised |-> ParseInt(text).raised, second |-> 0]
    ELSE LET b == BatchKillFrom(rows, 1, ParseInt(text).value, py)
         IN [killed |-> b.killed, read |-> b.read, raised |-> b.raised,
             second |-> ParseInt(text).value]

\* The rebuild stamps of the rows with the given indices.
Stamps(rows, read) == { rows[i].stamp : i \in read }

\* The kill requests for the rows with the given indices: killOperation(line[1])
\* on line[0].
Requests(rows, killed) == { <<rows[i].server, rows[i].opid>> : i \in killed }

\* OperationBlock.explainQuery for a typed server name and opid, and
\* QueryScreen.action's message when it returns a false value.  shape tells the
\* cells of the row found from line[6] on: a namespace and nothing more ("bare",
\* the document had no query), a namespace and a Query at line[7] ("query"), or
\* no namespace or a $msg text at line[7] ("text"); a row is looked up at most
\* once between two rebuilds, so the shape is drawn when it is read.  report is
\* what Server.explainQuery does for the query of the row.
ExplainQuery(rows, serverName, opid, shape, report) ==
    LET i == FindLine(rows, serverName, opid)
        read == Scanned(rows, serverName, opid)
    IN  IF i = 0
        THEN [did |-> "prompt", read |-> read, raised |-> "none",
              message |-> "Explain failed. Try again."]
        ELSE IF shape = "text"
        THEN [did |-> "prompt", read |-> read, raised |-> "none",
              message |-> "Explain failed. Try again."]
        ELSE IF shape = "bare"
        THEN [did |-> "prompt", read |-> read, raised |-> "IndexError", message |-> "none"]
        ELSE IF report = "AttributeError"
        THEN [did |-> "explain", read |-> read, raised |-> report, message |-> "none"]
        ELSE [did |-> "explain", read |-> read, raised |-> "none",
              message |-> IF report = "value" THEN "none" ELSE "Explain failed. Try again."]

\* OperationBlock.kill for a typed server name and opid, and QueryScreen.action's
\* message when it returns a false value.  exitOk is the exit code of the shell
\* command of Server.killOperation being 0.
Kill(serverName, opid, exitOk) ==
    IF FindServer(serverName) = None
    THEN [did |-> "prompt", kills |-> {}, raised |-> "AttributeError", message |-> "none"]
    ELSE [did |-> "kill", kills |-> {<<FindServer(serverName), opid>>}, raised |-> "none",
          message |-> IF exitOk THEN "none" ELSE "Kill failed. Try again."]

(***************************************************************************)
(* queryscreen.py: QueryScreen.action, the main loop                       *)
(***************************************************************************)
\* What askForInput('Server', 'Opid') and askForInput('Sec') can return.
TargetInputs ==
    {<<>>} \cup { <<s>> : s \in ServerTexts } \cup { <<s, o>> : s \in ServerTexts, o \in OpidTexts }
SecInputs == {<<>>} \cup { <<x>> : x \in SecTexts }

\* Where the body of the loop goes on: after the batch kill block, after the
\* single operation block, and after a key was read.
AfterBatch == IF autoKillSeconds # None THEN "auto" ELSE "reconnect"
AfterSingle(b) == IF b = "K" THEN "batch" ELSE AfterBatch
Dispatch(b) == IF b \in {"e", "k"} THEN "single" ELSE AfterSingle(b)

\* The rows the running rebuild has made so far.
Fresh == Cardinality({ i \in 1..Len(lines) : lines[i].stamp = counter + 1 })

\* for block in self.__blocks: block.reset() -- OperationBlock.reset begins.
Reset ==
    /\ pc = "reset"
    /\ counter < MaxTicks
    /\ lines' = ResetStart(lines)
    /\ turn' = 1
    /\ pc' = "poll"
    /\ inputValues' = <<>> /\ kills' = {} /\ batch' = {} /\ acted' = {}
    /\ message' = "none" /\ did' = "none" /\ second' = 0
    /\ UNCHANGED <<python, counter, button, shown, autoKillSeconds>>
    /\ UNCHANGED <<serverVars, callVars, consoleVars, viewVars>>

\* One pass of the loop over the servers in OperationBlock.reset: a connected
\* server is polled and a row is appended for each operation it reports.
Poll ==
    /\ pc = "poll"
    /\ turn <= Len(ServerList)
    /\ LET s == ServerList[turn] IN
        IF Connected(s)
        THEN \E docs \in Polls(MaxOps - Fresh) :
                lines' = lines \o [i \in DOMAIN docs |-> Cells(s, docs, i, counter + 1)]
        ELSE lines' = lines
    /\ turn' = turn + 1
    /\ UNCHANGED <<pc, python, counter, button, inputValues, kills, batch, acted, message,
                   did, second, shown, autoKillSeconds>>
    /\ UNCHANGED <<serverVars, callVars, consoleVars, viewVars>>

\* The end of OperationBlock.reset: the rows are sorted and handed to Block.
Sorted ==
    /\ pc = "poll"
    /\ turn > Len(ServerList)
    /\ lines' = Sort(lines)
    /\ pc' = "refresh"
    /\ UNCHANGED <<python, counter, button, turn, inputValues, kills, batch, acted, message,
                   did, second, shown, autoKillSeconds>>
    /\ UNCHANGED <<serverVars, callVars, consoleVars, viewVars>>

\* self.__console.refresh(self.__blocks): the rows are rendered.
Refresh ==
    /\ pc = "refresh"
    /\ shown' = counter + 1
    /\ pc' = "check"
    /\ UNCHANGED <<python, counter, button, lines, turn, inputValues, kills, batch, acted,
                   message, did, second, autoKillSeconds>>
    /\ UNCHANGED <<serverVars, callVars, consoleVars, viewVars>>

\* button = self.__console.checkButton(1); counter += 1
CheckButton ==
    /\ pc = "check"
    /\ \E key \in Keys \cup {None} :
        /\ button' = key
        /\ pc' = IF key = "p" THEN "pause" ELSE Dispatch(key)
    /\ counter' = counter + 1
    /\ UNCHANGED <<python, lines, turn, inputValues, kills, batch, acted, message, did, second,
                   shown, autoKillSeconds>>
    /\ UNCHANGED <<serverVars, callVars, consoleVars, viewVars>>

\* A pause whose closing key is dropped.
PauseIgnoringKey ==
    /\ pc = "pause"
    /\ button' = None
    /\ pc' = AfterBatch
    /\ UNCHANGED <<python, counter, lines, turn, inputValues, kills, batch, acted, message, did,
                   second, shown, autoKillSeconds>>
    /\ UNCHANGED <<serverVars, callVars, consoleVars, viewVars>>

\* if button == 'p': button = self.__console.waitButton()
Pause ==
    /\ pc = "pause"
    /\ \E key \in Keys :
        /\ button' = key
        /\ pc' = Dispatch(key)
    /\ UNCHANGED <<python, counter, lines, turn, inputValues, kills, batch, acted, message, did,
                   second, shown, autoKillSeconds>>
    /\ UNCHANGED <<serverVars, callVars, consoleVars, viewVars>>

\* if button in ('e', 'k'): the prompt, then explainQuery or kill when two
\* values were entered.
Single ==
    /\ pc = "single"
    /\ \E iv \in TargetInputs, shape \in {"bare", "query", "text"},
          report \in {"value", "absent", "AttributeError"}, exitOk \in BOOLEAN :
        LET e == ExplainQuery(lines, iv[1], iv[2], shape, report)
            k == Kill(iv[1], iv[2], exitOk)
        IN
        /\ inputValues' = iv
        /\ IF Len(iv) # 2
           THEN /\ did' = "prompt" /\ acted' = {} /\ kills' = {}
                /\ message' = "none" /\ raised' = "none"
           ELSE IF button = "e"
           THEN /\ did' = e.did /\ acted' = Stamps(lines, e.read) /\ kills' = {}
                /\ message' = e.message /\ raised' = e.raised
           ELSE /\ did' = k.did /\ acted' = {} /\ kills' = k.kills
                /\ message' = k.message /\ raised' = k.raised
        /\ pc' = IF raised' # "none" THEN "crashed"
                 ELSE IF iv # <<>> THEN "wait" ELSE AfterSingle(button)
    /\ UNCHANGED <<python, counter, button, lines, turn, batch, second, shown, autoKillSeconds>>
    /\ UNCHANGED <<serverVars, spc, self, op, stage, tryCount, attempts, result, variant>>
    /\ UNCHANGED <<consoleVars, viewVars>>

\* button = self.__console.waitButton() that ends the single operation block.
WaitButton ==
    /\ pc = "wait"
    /\ \E key \in Keys :
        /\ button' = key
        /\ pc' = AfterSingle(key)
    /\ inputValues' = <<>> /\ kills' = {} /\ acted' = {} /\ message' = "none" /\ did' = "none"
    /\ UNCHANGED <<python, counter, lines, turn, batch, second, shown, autoKillSeconds>>
    /\ UNCHANGED <<serverVars, callVars, consoleVars, viewVars>>

\* if button == 'K': the prompt, then batchKill when a value was entered.
Batch ==
    /\ pc = "batch"
    /\ \E iv \in SecInputs :
        LET b == BatchKill(lines, iv[1], python) IN
        /\ inputValues' = iv
        /\ IF iv = <<>>
           THEN /\ did' = "prompt" /\ batch' = {} /\ kills' = {} /\ acted' = {}
                /\ second' = 0 /\ raised' = "none"
           ELSE /\ did' = IF ParseInt(iv[1]).raised = "none" THEN "batchKill" ELSE "prompt"
                /\ batch' = b.killed
                /\ kills' = Requests(lines, b.killed)
                /\ acted' = Stamps(lines, b.read)
                /\ second' = b.second
                /\ raised' = b.raised
        /\ pc' = IF raised' # "none" THEN "crashed" ELSE AfterBatch
    /\ message' = "none"
    /\ UNCHANGED <<python, counter, button, lines, turn, shown, autoKillSeconds>>
    /\ UNCHANGED <<serverVars, spc, self, op, stage, tryCount, attempts, result, variant>>
    /\ UNCHANGED <<consoleVars, viewVars>>

\* if self.__autoKillSeconds is not None: batchKill(self.__autoKillSeconds)
AutoKill ==
    /\ pc = "auto"
    /\ LET b == BatchKill(lines, autoKillSeconds, python) IN
        /\ did' = IF ParseInt(autoKillSeconds).raised = "none" THEN "autoKill" ELSE "none"
        /\ batch' = b.killed
        /\ kills' = Requests(lines, b.killed)
        /\ acted' = Stamps(lines, b.read)
        /\ second' = b.second
        /\ raised' = b.raised
        /\ pc' = IF b.raised # "none" THEN "crashed" ELSE "reconnect"
    /\ inputValues' = <<>> /\ message' = "none"
    /\ UNCHANGED <<python, counter, button, lines, turn, shown, autoKillSeconds>>
    /\ UNCHANGED <<serverVars, spc, self, op, stage, tryCount, attempts, result, variant>>
    /\ UNCHANGED <<consoleVars, viewVars>>

\* The servers the reconnect block calls tryToConnect on.
Reconnecting ==
    IF button \in {"r", "R"} \/ counter % 20 = 0
    THEN { s \in Servers : button = "R" \/ ~Connected(s) }
    ELSE {}

\* The reconnect block, and the test of the while loop.
ReconnectTick ==
    /\ pc = "reconnect"
    /\ \E outcome \in [Servers -> ConnectOutcomes], auth \in [Servers -> AuthOutcomes] :
        LET c == [s \in Servers |->
                    TryToConnect(credentials[s], lastError[s], outcome[s], auth[s])]
            failing == { s \in Reconnecting : c[s].raised # "none" }
        IN
        /\ \A s \in Servers \ Reconnecting : outcome[s] = "ok" /\ auth[s] = "ok"
        /\ \A s \in Servers : ~credentials[s] => auth[s] = "ok"
        /\ connection' = [s \in Servers |->
                            IF s \in Reconnecting THEN c[s].connection ELSE connection[s]]
        /\ lastError' = [s \in Servers |->
                            IF s \in Reconnecting THEN c[s].lastError ELSE lastError[s]]
        /\ raised' = IF failing = {} THEN "none"
                     ELSE c[CHOOSE s \in failing : TRUE].raised
        /\ pc' = IF failing # {} THEN "crashed"
                 ELSE IF button = "q" THEN "done" ELSE "reset"
    /\ inputValues' = <<>> /\ kills' = {} /\ batch' = {} /\ acted' = {}
    /\ message' = "none" /\ did' = "none" /\ second' = 0
    /\ UNCHANGED <<python, counter, button, lines, turn, shown, autoKillSeconds>>
    /\ UNCHANGED <<credentials, spc, self, op, stage, tryCount, attempts, result, variant>>
    /\ UNCHANGED <<consoleVars, viewVars>>

\* The servers are constructed (without credentials here), some connected and
\* some not, and the loop is entered.
Init ==
    /\ \E outcome \in [Servers -> ConnectOutcomes] :
        /\ connection = [s \in Servers |-> TryToConnect(FALSE, "unset", outcome[s], "ok").connection]
        /\ lastError = [s \in Servers |-> TryToConnect(FALSE, "unset", outcome[s], "ok").lastError]
    /\ credentials = [s \in Servers |-> FALSE]
    /\ NoCall
    /\ pc = "reset" /\ python \in {2, 3} /\ counter = 0 /\ button = None /\ lines = <<>>
    /\ turn = 1
    /\ inputValues = <<>> /\ kills = {} /\ batch = {} /\ acted = {} /\ message = "none"
    /\ did = "none" /\ second = 0 /\ shown = 0 /\ autoKillSeconds \in {None, "1"}
    /\ NoConsole
    /\ NoView

Next ==
    \/ Reset \/ Poll \/ Sorted \/ Refresh \/ CheckButton \/ Pause \/ Single \/ WaitButton
    \/ Batch \/ AutoKill \/ ReconnectTick

Spec == Init /\ [][Next]_vars

\* C2: on 'e' or 'k' an inspect or a kill is performed only when both fields
\* were entered and the pair is a row of the operations table; every kill
\* request of 'k' is for a (server, opid) pair among the current rows.
C2_ActsOnlyOnRows ==
    did \in {"explain", "kill"} =>
        /\ Len(inputValues) = 2
        /\ FindLine(lines, inputValues[1], inputValues[2]) # 0
        /\ kills \subseteq Requests(lines, 1..Len(lines))

\* C3: whatever the user types at a prompt of the main loop (at 'e'/'k' an
\* unknown server, an unknown opid or one field only; at 'K' a threshold that
\* is no number), the loop prints a message about it and goes on with the
\* tick; no exception ends the loop.
C3_BadInputReported ==
    LET BadTarget ==
            /\ button \in {"e", "k"} /\ pc \in {"wait", "crashed"} /\ inputValues # <<>>
            /\ \/ Len(inputValues) = 1
               \/ /\ Len(inputValues) = 2
                  /\ FindLine(lines, inputValues[1], inputValues[2]) = 0
        BadThreshold ==
            /\ button = "K" /\ pc \in {"auto", "reconnect", "crashed"} /\ inputValues # <<>>
            /\ ParseInt(inputValues[1]).raised # "none"
    IN (BadTarget \/ BadThreshold) =>
            /\ raised = "none"
            /\ pc # "crashed"
            /\ message # "none"

\* C4: batchKill(threshold) on the rows of the last reset (elapsed seconds
\* positive, zero or null) kills exactly the rows whose elapsed seconds are
\* >= threshold, and ends without an exception.
C4_KillsExactlyAtOrAboveThreshold ==
    did \in {"batchKill", "autoKill"} =>
        /\ raised = "none"
        /\ batch = { i \in 1..Len(lines) : lines[i].secs # NoSecs /\ lines[i].secs >= second }

Labels == {<<"Server", "Opid">>, <<"Sec">>}

\* What input() can do: return a text or an empty text, or raise.
Answers == {"text", "", "KeyboardInterrupt", "EOFError"}

InitConsole ==
    /\ connection = [s \in Servers |-> "client"]
    /\ lastError = [s \in Servers |-> "unset"]
    /\ credentials = [s \in Servers |-> FALSE]
    /\ NoCall
    /\ NoLoop
    /\ NoView
    /\ cpc = "outside" /\ isatty \in BOOLEAN /\ original \in Attrs /\ terminal = original
    /\ settings = NoSettings /\ asked = <<>> /\ values = <<>> /\ prompts = 0 /\ ending = "none"

\* with Console() as console:
Enter ==
    /\ cpc = "outside"
    /\ settings' = ConsoleEnter(terminal, isatty).settings
    /\ terminal' = ConsoleEnter(terminal, isatty).terminal
    /\ cpc' = "active"
    /\ UNCHANGED <<isatty, original, asked, values, prompts, ending>>
    /\ UNCHANGED <<serverVars, callVars, loopVars, viewVars>>

\* askForInput(*attributes) up to its first input(): with self.__deactiveConsole.
AskForInput ==
    /\ cpc = "active"
    /\ prompts < MaxPrompts
    /\ \E attributes \in Labels : asked' = attributes
    /\ values' = <<>>
    /\ ending' = "none"
    /\ terminal' = DeactiveEnter(terminal, settings)
    /\ cpc' = "prompting"
    /\ UNCHANGED <<isatty, original, settings, prompts>>
    /\ UNCHANGED <<serverVars, callVars, loopVars, viewVars>>

\* One input() of askForInput; when it is the last one of the call (all labels
\* answered, an empty answer, an exception) the with block is left and
\* DeactiveConsole.__exit__ runs.
Input ==
    /\ cpc = "prompting"
    /\ \E answer \in Answers :
        LET more == answer = "text" /\ Len(asked) > 1
            e == DeactiveExit(terminal, isatty)
        IN
        /\ values' = IF answer = "text" THEN Append(values, answer) ELSE values
        /\ asked' = IF answer = "text" THEN Tail(asked) ELSE asked
        /\ IF more
           THEN /\ cpc' = "prompting"
                /\ UNCHANGED <<terminal, settings, prompts, ending>>
           ELSE /\ terminal' = e.terminal
                /\ settings' = e.settings
                /\ prompts' = prompts + 1
                /\ ending' = CASE answer = "text" -> "answered"
                               [] answer = "" -> "stopped"
                               [] OTHER -> answer
                /\ cpc' = CASE answer = "KeyboardInterrupt" -> "interrupted"
                            [] answer = "EOFError" -> "crashed"
                            [] OTHER -> "active"
    /\ UNCHANGED <<isatty, original>>
    /\ UNCHANGED <<serverVars, callVars, loopVars, viewVars>>

\* The with block of run is left: the loop returned, KeyboardInterrupt was
\* caught, or another exception passes through; Console.__exit__ runs.
Leave ==
    /\ cpc \in {"active", "interrupted", "crashed"}
    /\ terminal' = ConsoleExit(terminal, settings)
    /\ cpc' = "left"
    /\ UNCHANGED <<isatty, original, settings, asked, values, prompts, ending>>
    /\ UNCHANGED <<serverVars, callVars, loopVars, viewVars>>

NextConsole == Enter \/ AskForInput \/ Input \/ Leave

SpecConsole == InitConsole /\ [][NextConsole]_vars

\* C10: when askForInput has ended, however it ended (all labels answered,
\* an empty answer, KeyboardInterrupt or EOFError), the terminal is in cbreak
\* mode again (no echo, one character at a time); and when the Console has been
\* left after any sequence of prompts, the terminal has the attributes it had
\* before the Console was entered.
C10_TerminalRestored ==
    /\ (isatty /\ cpc \in {"active", "interrupted", "crashed"}) =>
          /\ terminal = SetCbreak(original)
          /\ ~terminal.echo /\ ~terminal.icanon
    /\ cpc = "prompting" => terminal = original
    /\ cpc = "left" => terminal = original

\* C10 witness: a terminal that echoed; two prompts, the last one ended by an
\* interrupt; the Console left.
C10_Witness ==
    /\ cpc = "left" /\ isatty /\ original.echo /\ original.icanon
    /\ prompts = 2 /\ ending = "KeyboardInterrupt"

(***************************************************************************)
(* SpecBlock: one Block is constructed, reset and printed again and again. *)
(***************************************************************************)
\* Block.__init__(columnHeaders)
InitBlock ==
    /\ connection = [s \in Servers |-> "client"]
    /\ lastError = [s \in Servers |-> "unset"]
    /\ credentials = [s \in Servers |-> FALSE]
    /\ NoCall /\ NoLoop /\ NoConsole /\ NoRefresh /\ NoStatusBlock /\ NoCell /\ NoTable /\ NoMore
    /\ columnHeaders \in HeaderLists
    /\ columnWidths = [i \in 1..Len(columnHeaders) |-> InitialWidth]
    /\ blockLines = <<>> /\ printed = <<>> /\ height = 0 /\ width = 0

\* The reset of a block begins: lines = [] (the list Block.reset is given).
BlockReset ==
    /\ blockLines' = <<>>
    /\ printed' = <<>> /\ height' = 0 /\ width' = 0
    /\ UNCHANGED <<columnHeaders, columnWidths>>
    /\ UNCHANGED <<serverVars, callVars, loopVars, consoleVars, refreshVars, statusVars, cellVars, tableVars, moreVars>>

\* The reset of a block goes on: lines.append(cells).
AppendCells ==
    /\ printed = <<>>
    /\ Len(blockLines) < MaxRows
    /\ \E cells \in RowsOf(columnHeaders) : blockLines' = Append(blockLines, cells)
    /\ UNCHANGED <<columnHeaders, columnWidths, printed, height, width>>
    /\ UNCHANGED <<serverVars, callVars, loopVars, consoleVars, refreshVars, statusVars, cellVars, tableVars, moreVars>>

\* Block.print(height, width)
Printing ==
    /\ \E h \in 2..MaxHeight, w \in 0..MaxWidth :
        \E p \in {BlockPrint(columnHeaders, blockLines, columnWidths, h, w)} :
        /\ height' = h /\ width' = w
        /\ columnWidths' = p.widths
        /\ printed' = p.out
    /\ UNCHANGED <<columnHeaders, blockLines>>
    /\ UNCHANGED <<serverVars, callVars, loopVars, consoleVars, refreshVars, statusVars, cellVars, tableVars, moreVars>>

NextBlock == BlockReset \/ AppendCells \/ Printing

SpecBlock == InitBlock /\ [][NextBlock]_vars

\* C11: whatever the headers, the stored column widths, the rows and the
\* width, no line Block.print writes is longer than the width it was given.
C11_NoLineLongerThanWidth ==
    \A l \in 1..Len(printed) : LineLength(printed[l]) <= width

\* C11 witness: a line fills the width exactly and its last column was cut,
\* with column widths raised by an earlier print.
C11_Witness ==
    /\ \E l \in 1..Len(printed) :
          /\ printed[l] # <<>>
          /\ LineLength(printed[l]) = width
          /\ printed[l][Len(printed[l])].shown < printed[l][Len(printed[l])].full
    /\ columnWidths[1] > InitialWidth

\* C12 as stated: on every line the columns are taken left to right, a column
\* is written only if its header fits the remaining width, the line ends at
\* the first column whose header does not fit, and no column is written at
\* less than its column width.
C12_NoPartialColumn ==
    \A l \in 1..Len(printed) :
        LET pieces == printed[l]
            line == IF l = 1 THEN columnHeaders ELSE blockLines[l - 1]
            n == Len(pieces)
        IN /\ \A k \in 1..n : LeftWidth(pieces, k, width) >= columnHeaders[k]
           /\ n < Len(line) => LeftWidth(pieces, n + 1, width) < columnHeaders[n + 1]
           /\ \A k \in 1..n : pieces[k].shown >= pieces[k].full

\* C12 amended: a column is written only if its header fits the remaining
\* width and the line ends at the first column whose header does not fit;
\* every column written but the last one has exactly its column width; the
\* last one written is cut to the remaining width when it is longer.
C12_OnlyLastColumnCut ==
    \A l \in 1..Len(printed) :
        LET pieces == printed[l]
            line == IF l = 1 THEN columnHeaders ELSE blockLines[l - 1]
            n == Len(pieces)
        IN /\ \A k \in 1..n : LeftWidth(pieces, k, width) >= columnHeaders[k]
           /\ n < Len(line) => LeftWidth(pieces, n + 1, width) < columnHeaders[n + 1]
           /\ \A k \in 1..(n - 1) : pieces[k].shown = pieces[k].full
           /\ n > 0 => /\ pieces[n].shown <= LeftWidth(pieces, n, width)
                       /\ pieces[n].shown < pieces[n].full
                              => pieces[n].shown = LeftWidth(pieces, n, width)

\* C12 witness: a data row whose second column is written in part and whose
\* third column is left out.
C12_Witness ==
    \E l \in 2..Len(printed) :
        /\ Len(printed[l]) = 2 /\ Len(blockLines[l - 1]) = 3
        /\ printed[l][2].shown > 0
        /\ printed[l][2].shown < printed[l][2].full

\* C13 as stated: no reset or print lowers a stored column width, and a print
\* that raises one raises it to no more than the remaining width of the line
\* that raised it.
C13_WidthsGrowWithinRoom ==
    [][ /\ \A i \in 1..Len(columnWidths) : columnWidths'[i] >= columnWidths[i]
        /\ \A l \in 1..Len(printed') : \A i \in 1..Len(printed'[l]) :
              LET earlier == { m \in 1..(l - 1) : i <= Len(printed'[m]) }
                  prior == IF earlier = {} THEN columnWidths[i]
                           ELSE printed'[CHOOSE m \in earlier : \A o \in earlier : o <= m][i].full
              IN printed'[l][i].full > prior
                    => printed'[l][i].full <= LeftWidth(printed'[l], i, width') ]_vars

\* C13 amended: no reset or print lowers a stored column width; a print raises
\* it to the length plus 2 of a cell of that column that is not the last cell
\* of its line, whether or not that fits the remaining width.
C13_WidthsGrowToCells ==
    [][ \A i \in 1..Len(columnWidths) :
          /\ columnWidths'[i] >= columnWidths[i]
          /\ columnWidths'[i] > columnWidths[i] =>
                \E l \in 1..Len(printed') :
                    LET line == IF l = 1 THEN columnHeaders ELSE blockLines[l - 1]
                    IN i < Len(line) /\ columnWidths'[i] = line[i] + 2 ]_vars

\* C13 witness: a print in a width of 4 has raised the width of the first
\* column to 9.
C13_Witness ==
    /\ printed # <<>> /\ width = 4
    /\ columnWidths[1] = 9 /\ columnWidths[1] > InitialWidth
    /\ \E l \in 1..Len(printed) : printed[l] # <<>> /\ printed[l][1].cell = 7

\* C14 as stated: Block.print(height, width) writes the header line, then the
\* first min(rows, height - 1) rows in stored order.
C14_RowsUpToHeightMinusOne ==
    printed # <<>> =>
        /\ Len(printed) - 1 = Min(Len(blockLines), height - 1)
        /\ \A k \in 1..Len(printed[1]) : printed[1][k].cell = columnHeaders[k]
        /\ \A l \in 2..Len(printed) : \A k \in 1..Len(printed[l]) :
              printed[l][k].cell = blockLines[l - 1][k]

\* C14 amended: Block.print(height, width) writes the header line, then the
\* first min(rows, height - 2) rows in stored order: two lines of the height
\* are kept from the rows.
C14_RowsUpToHeightMinusTwo ==
    printed # <<>> =>
        /\ Len(printed) - 1 = Min(Len(blockLines), height - 2)
        /\ \A k \in 1..Len(printed[1]) : printed[1][k].cell = columnHeaders[k]
        /\ \A l \in 2..Len(printed) : \A k \in 1..Len(printed[l]) :
              printed[l][k].cell = blockLines[l - 1][k]

\* C14 witness: two different rows stored, height 3: the header and the first
\* row are written.
C14_Witness ==
    /\ Len(blockLines) = 2 /\ blockLines[1] # blockLines[2] /\ height = 3
    /\ Len(printed) = 2 /\ Len(printed[2]) = Len(blockLines[1])

\* C15: Block.print with height 2 writes the header line and no row, however
\* many rows are stored.
C15_HeightTwoHeaderOnly ==
    (printed # <<>> /\ height = 2) =>
        /\ Len(printed) = 1
        /\ \A k \in 1..Len(printed[1]) : printed[1][k].cell = columnHeaders[k]

\* C15 witness: two rows stored, height 2, the header written.
C15_Witness ==
    /\ height = 2 /\ Len(blockLines) = 2 /\ Len(printed) = 1 /\ printed[1] # <<>>

(***************************************************************************)
(* SpecRefresh: the blocks are reset, the terminal is resized, and         *)
(* Console.refresh prints the blocks.                                      *)
(***************************************************************************)
InitRefresh ==
    /\ connection = [s \in Servers |-> "client"]
    /\ lastError = [s \in Servers |-> "unset"]
    /\ credentials = [s \in Servers |-> FALSE]
    /\ NoCall /\ NoLoop /\ NoConsole /\ NoBlock /\ NoStatusBlock /\ NoCell /\ NoTable /\ NoMore
    /\ blocks \in UNION { [1..n -> 0..MaxRows] : n \in 1..MaxBlocks }
    /\ termHeight \in 0..MaxScreen
    /\ rendered = <<>>

\* for block in self.__blocks: block.reset() -- the blocks get new rows.
BlocksReset ==
    /\ blocks' \in [1..Len(blocks) -> 0..MaxRows]
    /\ rendered' = <<>>
    /\ UNCHANGED termHeight
    /\ UNCHANGED <<serverVars, callVars, loopVars, consoleVars, blockVars, statusVars, cellVars, tableVars, moreVars>>

\* Console.__saveSize on SIGWINCH.
SaveSize ==
    /\ termHeight' \in 0..MaxScreen
    /\ rendered' = <<>>
    /\ UNCHANGED blocks
    /\ UNCHANGED <<serverVars, callVars, loopVars, consoleVars, blockVars, statusVars, cellVars, tableVars, moreVars>>

\* self.__console.refresh(self.__blocks); an IOError of block.print is
\* raised here by its first write (SpecRows has it at every line).
ConsoleRefresh ==
    /\ \E outcomes \in [1..Len(blocks) -> { o \in PrintOutcomes : o.at = 0 }] :
          rendered' = RefreshBlocks(blocks, termHeight, outcomes)
    /\ UNCHANGED <<blocks, termHeight>>
    /\ UNCHANGED <<serverVars, callVars, loopVars, consoleVars, blockVars, statusVars, cellVars, tableVars, moreVars>>

NextRefresh == BlocksReset \/ SaveSize \/ ConsoleRefresh

SpecRefresh == InitRefresh /\ [][NextRefresh]_vars

InitStatus ==
    /\ connection = [s \in Servers |-> "client"]
    /\ lastError = [s \in Servers |-> "unset"]
    /\ credentials = [s \in Servers |-> FALSE]
    /\ spc = "idle" /\ self = "s1" /\ op = "none" /\ stage = 1 /\ tryCount = 0
    /\ attempts = 0 /\ result = "none" /\ raised = "none"
    /\ variant \in {"server.py", "Server.py"}
    /\ NoLoop /\ NoConsole /\ NoBlock /\ NoRefresh /\ NoStatusBlock /\ NoCell /\ NoTable /\ NoMore

\* One pass of the loop of StatusBlock.reset: server.status() and the rates.
StatusReset ==
    /\ variant = "server.py"
    /\ \E st \in Statuses \cup {NoStatus} :
        /\ status' = st
        /\ baseline' = oldStatus
        /\ IF st.has
           THEN /\ rates' = StatusCells(st, oldStatus)
                /\ oldStatus' = st
           ELSE /\ rates' = [qps |-> NoRate("lastError"), flush |-> NoRate("none")]
                /\ oldStatus' = oldStatus
    /\ UNCHANGED <<serverVars, callVars, loopVars, consoleVars, blockVars, refreshVars, cellVars, tableVars, moreVars>>

\* Server.status of Server.py with a status document received.
LegacyStatus ==
    /\ variant = "Server.py"
    /\ \E st \in Statuses :
        /\ status' = st
        /\ baseline' = oldStatus
        /\ rates' = LegacyCells(st, oldStatus)
        /\ oldStatus' = st
    /\ UNCHANGED <<serverVars, callVars, loopVars, consoleVars, blockVars, refreshVars, cellVars, tableVars, moreVars>>

NextStatus == StatusReset \/ LegacyStatus

SpecStatus == InitStatus /\ [][NextStatus]_vars

\* C17: the first status poll of a server reports every rate as unknown; a
\* poll that sees counter value v2 at time t2 after (v1, t1), v2 >= v1 >= 0,
\* reports (v2 - v1) / (t2 - t1), every rate of the poll with the same
\* elapsed time.
C17_RateIsDifferenceOverElapsed ==
    (variant = "server.py" /\ status.has) =>
        /\ ~baseline.has => rates.qps.kind = "unknown" /\ rates.flush.kind = "unknown"
        /\ (baseline.has /\ status.time > baseline.time) =>
              /\ rates.qps.den = rates.flush.den
              /\ status.ops >= baseline.ops =>
                    /\ rates.qps.kind = "number"
                    /\ rates.qps.num * (status.time - baseline.time)
                          = (status.ops - baseline.ops) * rates.qps.den
              /\ status.flushes >= baseline.flushes =>
                    /\ rates.flush.kind = "number"
                    /\ rates.flush.num * (status.time - baseline.time)
                          = (status.flushes - baseline.flushes) * rates.flush.den

\* C18: when the time between two consecutive status polls of a server is
\* zero or negative, every rate of the poll is reported as unavailable: no
\* division by zero, no negative rate.
C18_NoRateWithoutElapsedTime ==
    (status.has /\ baseline.has /\ status.time <= baseline.time) =>
        /\ rates.qps.kind = "unavailable"
        /\ rates.flush.kind = "unavailable"

(***************************************************************************)
(* SpecCell: a number is shown in a cell, by Block.__cell (server.py       *)
(* variant) or as a Value (Server.py variant), under Python 2 or 3.        *)
(***************************************************************************)
InitCell ==
    /\ connection = [s \in Servers |-> "client"]
    /\ lastError = [s \in Servers |-> "unset"]
    /\ credentials = [s \in Servers |-> FALSE]
    /\ spc = "idle" /\ self = "s1" /\ op = "none" /\ stage = 1 /\ tryCount = 0
    /\ attempts = 0 /\ result = "none" /\ raised = "none"
    /\ variant \in {"server.py", "Server.py"}
    /\ pc = "none" /\ python \in {2, 3} /\ counter = 0 /\ button = None /\ lines = <<>>
    /\ inputValues = <<>> /\ kills = {} /\ batch = {} /\ acted = {} /\ message = "none"
    /\ did = "none" /\ second = 0 /\ shown = 0 /\ autoKillSeconds = None /\ turn = 1
    /\ NoConsole /\ NoBlock /\ NoRefresh /\ NoStatusBlock /\ NoTable /\ NoMore
    /\ number \in Values
    /\ cellText = NoText

\* Block.__cell(value) for the number.
CellOfNumber ==
    /\ variant = "server.py"
    /\ cellText = NoText
    /\ cellText' = Cell(number, python)
    /\ UNCHANGED <<serverVars, callVars, loopVars, consoleVars, blockVars, refreshVars,
                   statusVars, number, tableVars, moreVars>>

\* str(Value(value)) for the number.
StrOfValue ==
    /\ variant = "Server.py"
    /\ cellText = NoText
    /\ cellText' = ValueStr(number, python)
    /\ UNCHANGED <<serverVars, callVars, loopVars, consoleVars, blockVars, refreshVars,
                   statusVars, number, tableVars, moreVars>>

NextCell == CellOfNumber \/ StrOfValue

SpecCell == InitCell /\ [][NextCell]_vars

\* C19 as stated: a value below 1000 is shown as the plain integer; a
\* value of 1000 or more is divided by 1000 and rounded to nearest until it
\* is below 1000 and gets the suffix of the number of divisions from (none,
\* K, M, ...): format(999) = "999", format(1000) = "1K", format(1500000) =
\* "2M".
C19_BelowThousandWithSuffix ==
    cellText # NoText =>
        /\ number < 1000 => cellText = [number |-> number, fix |-> ""]
        /\ number >= 1000 => cellText.number < 1000 /\ cellText.fix \in {"K", "M"}
        /\ number = 1000 => cellText = [number |-> 1, fix |-> "K"]
        /\ number = 1500000 => cellText = [number |-> 2, fix |-> "M"]

\* C19 amended: Block.__cell shows a value below 10000 as the plain
\* integer; a value of 10000 or more is divided by 1000 and rounded until it
\* is below 10000 and gets the suffix of the number of divisions from (none,
\* k, M, ...), so the number shown is below 10000 with the smallest
\* sufficient suffix, and within one unit of that suffix of the value (half
\* a unit for one division under Python 3; under Python 2 the first division
\* drops the remainder): format(999) = "999", format(1000) = "1000",
\* format(1500000) = "1500k".
C19_BelowTenThousandWithSuffix ==
    (variant = "server.py" /\ cellText # NoText) =>
        LET n == cellText.number
            unit == CASE cellText.fix = "" -> 1
                      [] cellText.fix = "k" -> 1000
                      [] cellText.fix = "M" -> 1000000
                      [] OTHER -> 0
        IN /\ unit # 0
           /\ n >= 0 /\ n < 10000
           /\ number < 10000 <=> unit = 1
           /\ unit = 1 => n = number
           /\ unit > 1 => n >= 10
           /\ n * unit - number <= unit /\ number - n * unit <= unit
           /\ (unit = 1000 /\ python = 3) =>
                  2 * (n * unit - number) <= unit /\ 2 * (number - n * unit) <= unit
           /\ (unit = 1000 /\ python = 2) => n * unit <= number /\ number < (n + 1) * unit
           /\ number = 999 => cellText = [number |-> 999, fix |-> ""]
           /\ number = 1000 => cellText = [number |-> 1000, fix |-> ""]
           /\ number = 1500000 => cellText = [number |-> 1500, fix |-> "k"]

C19_Witness ==
    /\ variant = "server.py" /\ number = 1500000
    /\ cellText = [number |-> 1500, fix |-> "k"]

(***************************************************************************)
(* SpecTable: the operations table is reset, printed and searched.         *)
(***************************************************************************)
\* len() of the headers 'Server' and 'Opid', the columns a lookup names.
TableHeaders == <<6, 4>>

\* The widths the table is printed in: none, one column, all.
TableWidths == {0, 7, MaxWidth}

\* What the lookup can be given as opid.
TableOpidTexts == { Str(i) : i \in 1..MaxTableRows } \cup {"9"}

\* The lengths of the texts of the first two cells of a row.
ShownCells(line) == <<Len(line.server), Len(line.opid)>>

InitTable ==
    /\ connection = [s \in Servers |-> "client"]
    /\ lastError = [s \in Servers |-> "unset"]
    /\ credentials = [s \in Servers |-> FALSE]
    /\ NoCall /\ NoLoop /\ NoConsole /\ NoRefresh /\ NoStatusBlock /\ NoCell /\ NoTable /\ NoMore
    /\ columnHeaders = TableHeaders
    /\ columnWidths = [i \in 1..Len(columnHeaders) |-> InitialWidth]
    /\ blockLines = <<>> /\ printed = <<>> /\ height = 0 /\ width = 0

\* OperationBlock.reset begins: self.__lines = [].
TableReset ==
    /\ pc = "none"
    /\ lines' = ResetStart(lines)
    /\ turn' = 1
    /\ pc' = "poll"
    /\ found' = NoFound
    /\ printed' = <<>> /\ height' = 0 /\ width' = 0
    /\ UNCHANGED <<columnHeaders, columnWidths, blockLines>>
    /\ UNCHANGED <<python, counter, button, inputValues, kills, batch, acted, message,
                   did, second, shown, autoKillSeconds>>
    /\ UNCHANGED <<serverVars, callVars, consoleVars, refreshVars, statusVars, cellVars, moreVars>>

\* One pass of the loop over the servers in OperationBlock.reset.
TablePoll ==
    /\ pc = "poll"
    /\ turn <= Len(ServerList)
    /\ LET s == ServerList[turn] IN
        IF Connected(s)
        THEN \E docs \in Polls(MaxTableRows - Len(lines)) :
                lines' = lines \o [i \in DOMAIN docs |-> Cells(s, docs, i, 1)]
        ELSE lines' = lines
    /\ turn' = turn + 1
    /\ UNCHANGED <<pc, python, counter, button, inputValues, kills, batch, acted, message,
                   did, second, shown, autoKillSeconds>>
    /\ UNCHANGED <<serverVars, callVars, consoleVars, viewVars>>

\* The end of OperationBlock.reset: the rows are sorted and handed to Block.
TableSorted ==
    /\ pc = "poll"
    /\ turn > Len(ServerList)
    /\ \E rows \in {Sort(lines)} :
        /\ lines' = rows
        /\ blockLines' = [i \in DOMAIN rows |-> ShownCells(rows[i])]
    /\ pc' = "none"
    /\ UNCHANGED <<columnHeaders, columnWidths, printed, height, width>>
    /\ UNCHANGED <<python, counter, button, turn, inputValues, kills, batch, acted, message,
                   did, second, shown, autoKillSeconds>>
    /\ UNCHANGED <<serverVars, callVars, consoleVars, refreshVars, statusVars, cellVars,
                   tableVars, moreVars>>

\* Block.print(height, width) of the operations table.
TablePrinting ==
    /\ pc = "none"
    /\ \E h \in {2, MaxHeight}, w \in TableWidths :
        \E p \in {BlockPrint(columnHeaders, blockLines, columnWidths, h, w)} :
        /\ height' = h /\ width' = w
        /\ columnWidths' = p.widths
        /\ printed' = p.out
    /\ UNCHANGED <<columnHeaders, blockLines>>
    /\ UNCHANGED <<serverVars, callVars, loopVars, consoleVars, refreshVars, statusVars,
                   cellVars, tableVars, moreVars>>

\* OperationBlock.__findLine(serverName, opid) with what was typed.
Find ==
    /\ pc = "none"
    /\ \E serverName \in ServerTexts, opid \in TableOpidTexts :
        found' = [serverName |-> serverName, opid |-> opid,
                  line |-> FindLine(lines, serverName, opid)]
    /\ UNCHANGED <<serverVars, callVars, loopVars, consoleVars, blockVars, refreshVars,
                   statusVars, cellVars, moreVars>>

NextTable == TableReset \/ TablePoll \/ TableSorted \/ TablePrinting \/ Find

SpecTable == InitTable /\ [][NextTable]_vars

\* C20: after a reset of the operations table a lookup by server name and
\* opid returns the first stored row whose server and opid, as strings, are
\* the typed ones, and nothing when there is none; the rows having distinct
\* (server, opid) pairs, the lookup of the pair of any row returns exactly
\* that row, whatever was printed of the table.
C20_LookupReturnsTheRow ==
    (pc = "none" /\ found # NoFound) =>
        LET Matches(i) == lines[i].server = found.serverName /\ lines[i].opid = found.opid
        IN /\ found.line \in 0..Len(lines)
           /\ found.line # 0 => Matches(found.line) /\ \A j \in 1..(found.line - 1) : ~Matches(j)
           /\ found.line = 0 => \A j \in 1..Len(lines) : ~Matches(j)
           /\ \A k \in 1..Len(lines) : Matches(k) => found.line = k

\* C20 witness: three rows, the second one found by its pair, another row of
\* the same server before it, and the table printed without its opid column.
C20_Witness ==
    /\ Len(lines) = 3 /\ found.line = 2
    /\ lines[1].server = lines[2].server
    /\ printed # <<>> /\ \A l \in 1..Len(printed) : Len(printed[l]) <= 1

(***************************************************************************)
(* SpecScreen: the blocks of QueryScreen are reset and refreshed tick      *)
(* after tick, the servers going away and coming back.  A section stands   *)
(* for the Server object every block has of it.                            *)
(***************************************************************************)
\* The documents of currentOp: secs_running, and whether the operation is one
\* of replication (a getmore on local.oplog., or an op on '' or local.sources).
ScreenDocs == [secs : {NoSecs, MaxSecs}, repl : BOOLEAN]
ScreenPolls(n) == UNION { [1..k -> ScreenDocs] : k \in 0..n }

\* Server.currentOperations and the rows OperationBlock.reset makes of what
\* it yields.
CurrentOperations(s, docs, hide) ==
    LET rows == [i \in DOMAIN docs |->
                    [server |-> s, opid |-> Str(i), secs |-> docs[i].secs, stamp |-> 1,
                     repl |-> docs[i].repl]]
        Yielded(r) == ~(hide /\ r.repl)
    IN SelectSeq(rows, Yielded)

InitScreen ==
    /\ \E outcome \in [Servers -> ConnectOutcomes] :
        /\ connection = [s \in Servers |-> TryToConnect(FALSE, "unset", outcome[s], "ok").connection]
        /\ lastError = [s \in Servers |-> TryToConnect(FALSE, "unset", outcome[s], "ok").lastError]
    /\ credentials = [s \in Servers |-> FALSE]
    /\ NoCall
    /\ pc = "status" /\ python = 3 /\ counter = 0 /\ button = None /\ lines = <<>>
    /\ turn = 1
    /\ inputValues = <<>> /\ kills = {} /\ batch = {} /\ acted = {} /\ message = "none"
    /\ did = "none" /\ second = 0 /\ shown = 0 /\ autoKillSeconds = None
    /\ NoConsole /\ NoBlock /\ NoRefresh /\ NoStatusBlock /\ NoCell /\ NoTable
    /\ statusLines = <<>>
    /\ enabled \in SUBSET Servers
    /\ hiding = [s \in Servers |-> NoPoll]
    /\ NoRows /\ NoResize /\ NoReconnect

\* StatusBlock.reset
StatusRows ==
    /\ pc = "status"
    /\ \E outcome \in [Servers -> Outcomes] :
        /\ \A s \in Servers : ~Connected(s) => outcome[s] = "ok"
        /\ statusLines' = [t \in 1..Len(ServerList) |->
                StatusRow(ServerList[t], connection[ServerList[t]], lastError[ServerList[t]],
                          outcome[ServerList[t]])]
        /\ lastError' = [s \in Servers |->
                ServerStatus(connection[s], lastError[s], outcome[s]).lastError]
    /\ pc' = "operations"
    /\ UNCHANGED <<connection, credentials, enabled, hiding>>
    /\ UNCHANGED <<python, counter, button, lines, turn, inputValues, kills, batch, acted,
                   message, did, second, shown, autoKillSeconds>>
    /\ UNCHANGED <<callVars, consoleVars, blockVars, refreshVars, statusVars, cellVars, tableVars, rowVars, resizeVars, reconnectVars>>

\* OperationBlock.reset begins: self.__lines = [].
OperationsReset ==
    /\ pc = "operations"
    /\ lines' = ResetStart(lines)
    /\ turn' = 1
    /\ hiding' = [s \in Servers |-> NoPoll]
    /\ pc' = "poll"
    /\ UNCHANGED <<statusLines, enabled>>
    /\ UNCHANGED <<python, counter, button, inputValues, kills, batch, acted, message, did,
                   second, shown, autoKillSeconds>>
    /\ UNCHANGED <<serverVars, callVars, consoleVars, blockVars, refreshVars, statusVars,
                   cellVars, tableVars, rowVars, resizeVars, reconnectVars>>

\* One pass of the loop over the servers in OperationBlock.reset.
OperationsPoll ==
    /\ pc = "poll"
    /\ turn <= Len(ServerList)
    /\ LET s == ServerList[turn]
           hide == HideReplicationOperations(s, enabled)
       IN IF Connected(s)
          THEN \E docs \in ScreenPolls(MaxScreenOps - Len(lines)) :
                /\ lines' = lines \o CurrentOperations(s, docs, hide)
                /\ hiding' = [hiding EXCEPT ![s] =
                        [called |-> TRUE, hide |-> hide,
                         repl |-> { Str(i) : i \in { j \in DOMAIN docs : docs[j].repl } }]]
          ELSE lines' = lines /\ hiding' = hiding
    /\ turn' = turn + 1
    /\ UNCHANGED <<statusLines, enabled>>
    /\ UNCHANGED <<pc, python, counter, button, inputValues, kills, batch, acted, message,
                   did, second, shown, autoKillSeconds>>
    /\ UNCHANGED <<serverVars, callVars, consoleVars, blockVars, refreshVars, statusVars,
                   cellVars, tableVars, rowVars, resizeVars, reconnectVars>>

\* The end of OperationBlock.reset: the rows are sorted and handed to Block.
OperationsSorted ==
    /\ pc = "poll"
    /\ turn > Len(ServerList)
    /\ lines' = Sort(lines)
    /\ pc' = "refresh"
    /\ UNCHANGED <<python, counter, button, turn, inputValues, kills, batch, acted, message,
                   did, second, shown, autoKillSeconds>>
    /\ UNCHANGED <<serverVars, callVars, consoleVars, viewVars>>

\* The rest of the pass for a key that asks for no action on an operation:
\* the reconnect block.  key is the button of this pass, which the next pass
\* reads anew; due tells that counter % 20 == 0.
ReconnectBlock ==
    /\ pc = "check"
    /\ \E key \in {None, "r", "R"}, due \in BOOLEAN,
          outcome \in [Servers -> ConnectOutcomes] :
        LET chosen == ServersToConnect(key, IF due THEN 0 ELSE 1, connection)
            c == [s \in Servers |-> TryToConnect(credentials[s], lastError[s], outcome[s], "ok")]
        IN /\ \A s \in Servers \ chosen : outcome[s] = "ok"
           /\ connection' = [s \in Servers |->
                                IF s \in chosen THEN c[s].connection ELSE connection[s]]
           /\ lastError' = [s \in Servers |->
                                IF s \in chosen THEN c[s].lastError ELSE lastError[s]]
    /\ pc' = "status"
    /\ UNCHANGED <<credentials, python, counter, button, lines, turn, inputValues, kills, batch, acted,
                   message, did, second, shown, autoKillSeconds>>
    /\ UNCHANGED <<callVars, consoleVars, viewVars>>

NextScreen ==
    \/ StatusRows \/ OperationsReset \/ OperationsPoll \/ OperationsSorted \/ Refresh
    \/ ReconnectBlock

SpecScreen == InitScreen /\ [][NextScreen]_vars

\* C21: after every refresh the status block holds one row per status server
\* in configuration order, with metrics if and only if the server is
\* connected and its poll returned data, and with its name and last error
\* otherwise; the operations block holds rows of connected servers only.
C21_RowPerServer ==
    pc = "check" =>
        /\ Len(statusLines) = Len(ServerList)
        /\ \A t \in 1..Len(statusLines) :
            LET row == statusLines[t] IN
            /\ row.server = ServerList[t]
            /\ row.cells \in {"metrics", "lastError"}
            /\ row.cells = "metrics" <=> (Connected(row.server) /\ row.polled = "ok")
            /\ row.cells = "lastError" =>
                    row.error = lastError[row.server] /\ row.error # "unset"
        /\ \A i \in 1..Len(lines) : Connected(lines[i].server)

\* C21 witness: after a refresh the first server is not connected and shows
\* its error, the second shows metrics, a third state of a server (connected,
\* its poll failed) was seen for neither, and an operation is listed.
C21_Witness ==
    /\ pc = "check" /\ shown = 1
    /\ ~Connected("s1") /\ statusLines[1].cells = "lastError"
    /\ statusLines[1].error = "ConnectionFailure"
    /\ statusLines[2].cells = "metrics"
    /\ Len(lines) >= 1

\* C29: a server whose configuration turns replicationOperations on is
\* polled with hideReplicationOperations false and its replication
\* operations are listed; filtering is on only for the other servers.
C29_EnabledServersUnfiltered ==
    \A s \in Servers :
        hiding[s].called =>
            /\ hiding[s].hide <=> s \notin enabled
            /\ (pc = "check" /\ s \in enabled) =>
                    \A o \in hiding[s].repl :
                        \E i \in 1..Len(lines) : lines[i].server = s /\ lines[i].opid = o

\* C22: with an auto-kill threshold given at startup, every pass of the main
\* loop applies batchKill with that threshold exactly once, after the
\* refresh of the pass and after the manual actions of its key, by the rule
\* of the manual 'K' (the same comparison and early exit): a pass whose
\* manual actions are over, however they ended, has applied it.
C22_AutoKillInEveryPass ==
    /\ [](did = "autoKill" =>
            /\ autoKillSeconds # None
            /\ pc \in {"reconnect", "crashed"}
            /\ shown = counter
            /\ second = ParseInt(autoKillSeconds).value)
    /\ []((pc \in {"reconnect", "crashed"} /\ autoKillSeconds # None) => did = "autoKill")
    /\ [][pc' = "auto" => pc \in {"check", "pause", "single", "wait", "batch"}]_vars
    /\ [][pc = "auto" =>
            /\ pc' \in {"reconnect", "crashed"}
            /\ did' = "autoKill"
            /\ batch' = BatchKill(lines, autoKillSeconds, python).killed
            /\ kills' = Requests(lines, batch')
            /\ counter' = counter /\ lines' = lines]_vars

\* C23 as stated: on key 'p' the loop waits, with no reset and no refresh,
\* until a key is pressed and then goes on as with no key: the key that ends
\* the pause is not dispatched as a command.
C23_PauseKeyNotDispatched ==
    /\ [](pc = "pause" => button = "p")
    /\ [][pc = "pause" =>
            /\ shown' = shown /\ lines' = lines /\ counter' = counter
            /\ pc' = AfterBatch]_vars

\* C23 amended: on key 'p' the loop waits, with no reset and no refresh,
\* until a key is pressed; that key takes the place of 'p' as the key of the
\* pass and is dispatched as a command ('e', 'k', 'K', 'r', 'R', 'q'), a
\* second 'p' doing nothing.
C23_PauseKeyDispatched ==
    /\ [](pc = "pause" => button = "p")
    /\ [][pc = "pause" =>
            /\ shown' = shown /\ lines' = lines /\ counter' = counter
            /\ button' \in Keys
            /\ pc' = Dispatch(button')]_vars
    /\ [][pc' = "pause" => pc = "check" /\ button' = "p"]_vars

\* C23 witness: the loop waits in the pause of its second pass, two rows
\* on the screen.
C23_Witness ==
    pc = "pause" /\ counter = 2 /\ shown = 2 /\ Len(lines) = 2

\* C24: once the key of a pass is 'q' the loop ends with that pass: no reset,
\* no refresh and no key is read after it; and the loop ends on 'q' only:
\* no other key ends it.
C24_EndsOnQOnly ==
    /\ [][button = "q" =>
            /\ button' = "q"
            /\ pc' \notin {"reset", "poll", "refresh", "check", "pause", "wait"}
            /\ shown' = shown /\ lines' = lines /\ counter' = counter]_vars
    /\ []((button = "q" /\ pc = "reconnect") => ENABLED ReconnectTick)
    /\ [](pc \in {"done", "crashed"} => button = "q")
    /\ [][(pc = "reconnect" /\ button # "q") => pc' = "reset"]_vars

\* C25: within one Block.print every line written, the header line and each
\* row, starts column i at the same offset: the column widths of the header
\* line are the widths of every row of that print.
C25_ColumnsAligned ==
    LET RECURSIVE Offset(_, _)
        Offset(pieces, i) == IF i = 1 THEN 0 ELSE Offset(pieces, i - 1) + pieces[i - 1].full
    IN \A k \in 1..Len(printed) :
        \A i \in 1..Min(Len(printed[k]), Len(printed[1])) :
            Offset(printed[k], i) = Offset(printed[1], i)

\* C26: the lines one Console.refresh writes, header lines, rows and blank
\* separators together, are never more than the height of the terminal.
C26_LinesWithinHeight ==
    LET RECURSIVE Written(_)
        Written(r) == IF r = <<>> THEN 0
                      ELSE r[1].lines + (IF r[1].blank THEN 1 ELSE 0) + Written(Tail(r))
    IN Written(rendered) <= termHeight

(***************************************************************************)
(* SpecRows: the four blocks of QueryScreen are reset, one after the       *)
(* other, from documents with and without their optional fields, and       *)
(* handed to Console.refresh.  A cell is written as the name of what the   *)
(* code appends.                                                           *)
(***************************************************************************)
\* QueryScreen.__init__: self.__blocks, in the order they are appended; the
\* columnHeaders of StatusBlock, ReplicationInfoBlock, ReplicaSetMemberBlock
\* and OperationBlock.
BlockColumnHeaders ==
    << <<"Server", "QPS", "Active", "Queue", "Flush", "Connection", "Network I/O", "Memory",
         "Page Faults">>,
       <<"Server", "Source", "SyncedTo", "Inc">>,
       <<"Server", "Set", "State", "Uptime", "Lag", "Inc", "Ping">>,
       <<"Server", "Opid", "Client", "Type", "Sec", "Locks", "Namespace", "Query">> >>

\* StatusBlock.reset: the cells of one server, with a status or without.
StatusLine(hasStatus) ==
    IF hasStatus
    THEN <<"server", "operations", "activeClients", "currentQueue", "flushes", "connections",
           "network", "mem", "page_faults">>
    ELSE <<"server", "lastError">>

\* ReplicationInfoBlock.reset: the cells of one source document.
ReplicationInfoLine(hasSyncedTo) ==
    <<"server", "source">> \o (IF hasSyncedTo THEN <<"syncedTo", "inc">> ELSE <<>>)

\* ReplicaSetMemberBlock.reset: the cells of one member; the lag is None
\* when the member has no optimeDate.
ReplicaSetMemberLine(hasOptimeDate) ==
    <<"name", "set", "stateStr", "uptime", "pingMs",
      IF hasOptimeDate THEN "lag" ELSE None, "optime">>

\* What an operation document has as query.
OperationQueries == {"absent", "$msg", "query"}

\* OperationBlock.reset: the cells of one operation.
OperationLineBothCells(query) ==
    <<"server", "opid", "client", "op", "secs_running", "locks", "ns">>
        \o (IF query = "absent" THEN <<>> ELSE <<"$msg", "Query">>)
OperationLine(query) ==
    <<"server", "opid", "client", "op", "secs_running", "locks", "ns">>
        \o (CASE query = "absent" -> <<>>
              [] query = "$msg" -> <<"$msg">>
              [] OTHER -> <<"Query">>)

\* How many documents a block other than the status block is reset from.
MaxDocs == 1

\* The lines made of up to n documents, each giving one of the candidates.
LinesOf(candidates, n) == UNION { [1..k -> candidates] : k \in 0..n }

InitRows ==
    /\ connection = [s \in Servers |-> "client"]
    /\ lastError = [s \in Servers |-> "unset"]
    /\ credentials = [s \in Servers |-> FALSE]
    /\ NoCall /\ NoLoop /\ NoConsole /\ NoBlock /\ NoStatusBlock /\ NoCell /\ NoTable /\ NoScreen /\ NoResize /\ NoReconnect
    /\ NoRows /\ blocks = <<>> /\ rendered = <<>>
    /\ termHeight \in 0..MaxScreen          \* Console.__init__: self.__saveSize()

\* block.reset() of the block whose turn it is: Block.reset(self, lines).
BlockResetTo(rows) ==
    /\ blockRows' = [block |-> Len(blocks) + 1, lines |-> rows]
    /\ blocks' = Append(blocks, Len(rows))
    /\ UNCHANGED <<rendered, termHeight, screenVars, resizeVars, reconnectVars>>
    /\ UNCHANGED <<serverVars, callVars, loopVars, consoleVars, blockVars, statusVars, cellVars, tableVars>>

\* StatusBlock.reset: a line for every server; a new pass of the loop begins.
StatusBlockReset ==
    /\ blocks = <<>> \/ rendered # <<>>
    /\ \E has \in [1..Len(ServerList) -> BOOLEAN] :
        /\ blockRows' = [block |-> 1, lines |-> [i \in 1..Len(ServerList) |-> StatusLine(has[i])]]
        /\ blocks' = <<Len(ServerList)>>
    /\ rendered' = <<>>
    /\ UNCHANGED <<termHeight, screenVars, resizeVars, reconnectVars>>
    /\ UNCHANGED <<serverVars, callVars, loopVars, consoleVars, blockVars, statusVars, cellVars, tableVars>>

\* ReplicationInfoBlock.reset: a line for each connected server with a source.
ReplicationInfoBlockReset ==
    /\ Len(blocks) = 1
    /\ \E rows \in LinesOf({ ReplicationInfoLine(f) : f \in BOOLEAN }, MaxDocs) : BlockResetTo(rows)

\* ReplicaSetMemberBlock.reset: a line for each member.
ReplicaSetMemberBlockReset ==
    /\ Len(blocks) = 2
    /\ \E rows \in LinesOf({ ReplicaSetMemberLine(f) : f \in BOOLEAN }, MaxDocs) : BlockResetTo(rows)

\* OperationBlock.reset: a line for each operation.
OperationBlockReset ==
    /\ Len(blocks) = 3
    /\ \E rows \in LinesOf({ OperationLine(q) : q \in OperationQueries }, MaxDocs + 1) : BlockResetTo(rows)

\* self.__console.refresh(self.__blocks), once the four blocks are reset.
RowsRefresh ==
    /\ Len(blocks) = Len(BlockColumnHeaders) /\ rendered = <<>>
    /\ \E outcomes \in [1..Len(blocks) -> PrintOutcomes] :
          /\ \A i \in 1..Len(blocks) : outcomes[i].at <= blocks[i]
          /\ rendered' = RefreshBlocks(blocks, termHeight, outcomes)
    /\ UNCHANGED <<blocks, termHeight, blockRows, screenVars, resizeVars, reconnectVars>>
    /\ UNCHANGED <<serverVars, callVars, loopVars, consoleVars, blockVars, statusVars, cellVars, tableVars>>

NextRows ==
    \/ StatusBlockReset \/ ReplicationInfoBlockReset \/ ReplicaSetMemberBlockReset
    \/ OperationBlockReset \/ RowsRefresh

SpecRows == InitRows /\ [][NextRows]_vars

\* C27: both assertions of Block.print hold at every call from the main
\* loop: the height Console.refresh passes is above 1, and every line of the
\* status, replication info, replica set member and operation blocks has at
\* most as many cells as the block has column headers.
C27_PrintAssertionsHold ==
    /\ blockRows.block # 0 =>
          \A i \in 1..Len(blockRows.lines) :
              Len(blockRows.lines[i]) <= Len(BlockColumnHeaders[blockRows.block])
    /\ \A i \in 1..Len(rendered) : rendered[i].height # 0 => rendered[i].height > 1

\* C27 witness: a pass whose blocks all have lines, the operation block one
\* with a query cell and one without, all printed.
C27_Witness ==
    /\ Len(rendered) = 4
    /\ \A b \in 1..4 : blocks[b] > 0 /\ rendered[b].height > 1
    /\ blockRows.block = 4 /\ Len(blockRows.lines) = 2
    /\ Len(blockRows.lines[1]) = 8 /\ Len(blockRows.lines[2]) = 7

(***************************************************************************)
(* SpecResize: Console.refresh prints the blocks one after the other while *)
(* SIGWINCH may run Console.__saveSize between any two steps.              *)
(***************************************************************************)
\* What TIOCGWINSZ can give: rows and columns of the terminal.
TerminalSizes == [height : {MaxHeight, MaxScreen}, width : {7, MaxWidth}]

\* Console.__init__: self.__saveSize(); the blocks of the screen have rows.
InitResize ==
    /\ connection = [s \in Servers |-> "client"]
    /\ lastError = [s \in Servers |-> "unset"]
    /\ credentials = [s \in Servers |-> FALSE]
    /\ NoCall /\ NoConsole /\ NoBlock /\ NoStatusBlock /\ NoCell /\ NoTable /\ NoScreen /\ NoRows /\ NoReconnect
    /\ pc = "reset" /\ python = 3 /\ counter = 0 /\ button = None /\ lines = <<>>
    /\ inputValues = <<>> /\ kills = {} /\ batch = {} /\ acted = {} /\ message = "none"
    /\ did = "none" /\ second = 0 /\ shown = 0 /\ autoKillSeconds = None /\ turn = 1
    /\ blocks \in [1..MaxBlocks -> 0..MaxRows]
    /\ \E size \in TerminalSizes : termHeight = size.height /\ termWidth = size.width
    /\ rendered = <<>> /\ atStart = NoSize

\* signal.signal(signal.SIGWINCH, self.__saveSize): the handler runs between
\* any two steps of the main thread.
Winch ==
    /\ \E size \in TerminalSizes : termHeight' = size.height /\ termWidth' = size.width
    /\ UNCHANGED <<blocks, rendered, atStart>>
    /\ UNCHANGED <<serverVars, callVars, loopVars, consoleVars, blockVars, statusVars, cellVars, tableVars, screenVars, rowVars, reconnectVars>>

\* Console.refresh begins: os.system('clear'), leftHeight = self.__height.
RefreshBegin ==
    /\ pc = "reset"
    /\ pc' = "print"
    /\ rendered' = <<>>
    /\ atStart' = [height |-> termHeight, width |-> termWidth]
    /\ UNCHANGED <<blocks, termHeight, termWidth>>
    /\ UNCHANGED <<python, counter, button, lines, turn, inputValues, kills, batch, acted, message,
                   did, second, shown, autoKillSeconds>>
    /\ UNCHANGED <<serverVars, callVars, consoleVars, blockVars, statusVars, cellVars, tableVars, screenVars, rowVars, reconnectVars>>

\* block.print(height, self.__width): self.__width is read at the call.
WidthPassed == termWidth

\* One pass of the loop of Console.refresh, or its end.
RefreshBlock ==
    /\ pc = "print"
    /\ LET i == Len(rendered) + 1
           leftHeight == IF rendered = <<>> THEN atStart.height
                         ELSE rendered[Len(rendered)].after
       IN IF i > Len(blocks)
          THEN pc' = "reset" /\ UNCHANGED rendered
          ELSE \E outcome \in PrintOutcomes :
                 \E r \in {RefreshFrom(<<blocks[i]>>, 1, leftHeight, <<outcome>>, <<>>)} :
                    IF r = <<>>
                    THEN pc' = "reset" /\ UNCHANGED rendered
                    ELSE /\ pc' = "print"
                         /\ rendered' = Append(rendered,
                                [left |-> r[1].left, height |-> r[1].height, after |-> r[1].after,
                                 width |-> WidthPassed])
    /\ UNCHANGED <<blocks, termHeight, termWidth, atStart>>
    /\ UNCHANGED <<python, counter, button, lines, turn, inputValues, kills, batch, acted, message,
                   did, second, shown, autoKillSeconds>>
    /\ UNCHANGED <<serverVars, callVars, consoleVars, blockVars, statusVars, cellVars, tableVars, screenVars, rowVars, reconnectVars>>

NextResize == Winch \/ RefreshBegin \/ RefreshBlock

SpecResize == InitResize /\ [][NextResize]_vars

\* C28: a resize may come at any point; every refresh draws all its blocks
\* with one pair of rows and columns, the pair the latest resize before the
\* refresh began left: the lines left are counted from its rows and every
\* block printed is given its columns.
C28_OneSizePerRefresh ==
    /\ rendered # <<>> => rendered[1].left = atStart.height
    /\ \A i \in 1..Len(rendered) :
          /\ i > 1 => rendered[i].left = rendered[i - 1].after
          /\ rendered[i].height # 0 => rendered[i].width = atStart.width

(***************************************************************************)
(* SpecReconnect: the passes of QueryScreen.action seen from the servers:  *)
(* the counter, the key a pass ends with, the reconnect block; servers     *)
(* become reachable and unreachable in between.                            *)
(***************************************************************************)
\* The passes the loop is followed for.
MaxPasses == 21

\* if button in ('r', 'R') or counter % 20 == 0
ReconnectPeriod == 20

\* The key a pass comes to the reconnect block with.
ReconnectKeys == {None, "r", "R", "q"}

\* What connectionClass(address) gives for a server.
ConnectOutcome(s, reached) == IF s \in reached THEN "ok" ELSE "ConnectionFailure"

\* Server.__init__ of every server (tryToConnect, no credentials), then
\* QueryScreen.action is entered.
InitReconnect ==
    /\ reachable \in SUBSET Servers
    /\ connection = [s \in Servers |->
            TryToConnect(FALSE, "unset", ConnectOutcome(s, reachable), "ok").connection]
    /\ lastError = [s \in Servers |->
            TryToConnect(FALSE, "unset", ConnectOutcome(s, reachable), "ok").lastError]
    /\ credentials = [s \in Servers |-> FALSE]
    /\ NoCall /\ NoConsole
    /\ NoBlock /\ NoRefresh /\ NoStatusBlock /\ NoCell /\ NoTable /\ NoScreen /\ NoRows /\ NoResize
    /\ pc = "reset" /\ python = 3 /\ counter = 0 /\ button = None /\ lines = <<>>
    /\ inputValues = <<>> /\ kills = {} /\ batch = {} /\ acted = {} /\ message = "none"
    /\ did = "none" /\ second = 0 /\ shown = 0 /\ autoKillSeconds = None /\ turn = 1
    /\ attempted = {}
    /\ lastAttempt = [s \in Servers |-> 0]

\* A server that could not be reached can be reached from now on.
Reach ==
    /\ pc \in {"reset", "reconnect"}
    /\ \E s \in Servers \ reachable : reachable' = reachable \cup {s}
    /\ UNCHANGED <<attempted, lastAttempt>>
    /\ UNCHANGED <<serverVars, callVars, loopVars, consoleVars, blockVars, refreshVars, statusVars,
                   cellVars, tableVars, screenVars, rowVars, resizeVars>>

\* A server that could be reached cannot any more; its handle stays.
Unreach ==
    /\ pc \in {"reset", "reconnect"}
    /\ \E s \in reachable : reachable' = reachable \ {s}
    /\ UNCHANGED <<attempted, lastAttempt>>
    /\ UNCHANGED <<serverVars, callVars, loopVars, consoleVars, blockVars, refreshVars, statusVars,
                   cellVars, tableVars, screenVars, rowVars, resizeVars>>

\* A pass of the loop up to the reconnect block: resets, refresh, the key
\* (polled, or given to end a pause or a prompt), counter += 1.
Pass ==
    /\ pc = "reset"
    /\ counter < MaxPasses
    /\ pc' = "reconnect"
    /\ counter' = counter + 1
    /\ button' \in ReconnectKeys
    /\ UNCHANGED <<python, lines, turn, inputValues, kills, batch, acted, message,
                   did, second, shown, autoKillSeconds>>
    /\ UNCHANGED <<serverVars, callVars, consoleVars, blockVars, refreshVars, statusVars,
                   cellVars, tableVars, screenVars, rowVars, resizeVars, reconnectVars>>

\* The reconnect block, then the test of the while loop.
ReconnectStep ==
    /\ pc = "reconnect"
    /\ \E chosen \in {ServersToConnect(button, counter, connection)} :
        LET c == [s \in Servers |->
                    TryToConnect(credentials[s], lastError[s], ConnectOutcome(s, reachable), "ok")]
        IN /\ connection' = [s \in Servers |->
                                IF s \in chosen THEN c[s].connection ELSE connection[s]]
           /\ lastError' = [s \in Servers |->
                                IF s \in chosen THEN c[s].lastError ELSE lastError[s]]
           /\ attempted' = chosen
           /\ lastAttempt' = [s \in Servers |->
                                IF s \in chosen THEN counter ELSE lastAttempt[s]]
    /\ pc' = IF button = "q" THEN "done" ELSE "reset"
    /\ UNCHANGED <<credentials, reachable>>
    /\ UNCHANGED <<python, counter, button, lines, turn, inputValues, kills, batch, acted, message,
                   did, second, shown, autoKillSeconds>>
    /\ UNCHANGED <<callVars, consoleVars, blockVars, refreshVars, statusVars,
                   cellVars, tableVars, screenVars, rowVars, resizeVars>>

NextReconnect == Reach \/ Unreach \/ Pass \/ ReconnectStep

SpecReconnect == InitReconnect /\ [][NextReconnect]_vars

\* C30: while the loop runs, every server that is not connected gets a
\* connection attempt at least once in 20 ticks, and in the pass that ends
\* with 'r' or 'R'; an attempt connects a server that can be reached, so
\* such a server is connected within 20 ticks; and a connected server gets
\* an attempt on 'R' only.
C30_ReconnectEveryTwentyTicks ==
    /\ [](\A s \in Servers : ~Connected(s) => counter - lastAttempt[s] <= ReconnectPeriod)
    /\ []((pc = "reset" /\ counter % ReconnectPeriod = 0) =>
            \A s \in Servers : ~Connected(s) => lastAttempt[s] = counter)
    /\ [][(pc = "reconnect" /\ pc' # "reconnect") =>
            /\ button \in {"r", "R"} => \A s \in Servers : ~Connected(s) => s \in attempted'
            /\ \A s \in attempted' : Connected(s) => button = "R"
            /\ \A s \in attempted' \cap reachable : connection'[s] # None]_vars

\* C30 witness: a server that could not be reached at startup and can be
\* reached by now is connected by the block of tick 20, with no key pressed,
\* while the other server, connected, got no attempt.
C30_Witness ==
    /\ counter = ReconnectPeriod /\ pc = "reset" /\ button = None
    /\ attempted = {"s1"} /\ Connected("s1")
    /\ lastError["s1"] = "ConnectionFailure" /\ lastAttempt["s1"] = ReconnectPeriod
    /\ Connected("s2") /\ lastAttempt["s2"] = 0
====
